---- MODULE Spec2Model ----
(***************************************************************************)
(* Model of the BitDogLab weather station firmware (weather_station.c):    *)
(* the POST /cfg configuration update protocol, GET /config, the reset     *)
(* button, and the connection pool with its idle sweep task.               *)
(*                                                                         *)
(* Numbers of the configuration are in hundredths (15.0 is 1500), so that  *)
(* a value with two decimals and its "%.1f" rendering differ.  Times are   *)
(* in milliseconds.                                                        *)
(***************************************************************************)
EXTENDS Integers, Sequences, FiniteSets, TLC

VARIABLES
    \* ---- configuration store and the POST /cfg handler
    config,         \* config_limits_t config
    mutex_config,   \* holder of mutex_config: "none", "web", "alert"
    post_pc,        \* position of the web task inside the POST /cfg branch
    body_copy,      \* strdup(body), cut in place by strtok
    strtok_save,    \* strtok's saved pointer (index into body_copy, 0 = none)
    pair,           \* char *pair (index into body_copy, 0 = NULL)
    updated,        \* bool updated
    updates,        \* entries appended to updates[]
    errors,         \* entries appended to errors[]
    resp,           \* the response handed to send_http_response by the last request
    req_body,       \* the body of the last POST /cfg as received
    cfg_before,     \* config when the last POST /cfg was dispatched
    post_status,    \* HTTP status of the last completed POST /cfg (0 = none yet)
    after_post,     \* "posted": nothing touched config since the last POST /cfg ended;
                    \* "reported": GET /config then ran; "refused": the last
                    \* POST /cfg ended before its pair loop; "none" otherwise
    nreq,           \* number of POST /cfg requests dispatched so far
    \* ---- connection pool, transport callbacks and the sweep task
    active_connections, \* conn_state_t *active_connections[MAX_CONNECTIONS] (0 = NULL)
    conn,           \* the conn_state_t records and their transport handles, by identity
    naccept,        \* connections offered to webserver_accept so far
    now,            \* get_absolute_time(), in ms
    sw_pc,          \* position of tarefa_timeout
    sw_i,           \* its loop index i
    sw_state,       \* the argument of its close_connection call (0 = NULL)
    overlap,        \* a callback or accept wrote the slot or record the sweep is working on
    sw_missed,      \* a record the sweep left open although its deadline had passed
    \* ---- sensor reading, acquisition task and alert task
    sensor_data,    \* sensor_data_t sensor_data (hundredths)
    mutex_sensor,   \* holder of mutex_sensor: "none", "sens", "alert"
    sn_pc,          \* position of tarefa_leitura_sensores
    alert_active,   \* volatile bool alert_active
    al_pc,          \* position of tarefa_alerta
    alerta,         \* its local bool alerta
    al_tick,        \* what the current or last tick of tarefa_alerta did
    nticks,         \* ticks of tarefa_alerta started so far
    evals,          \* outcomes ("out", "in") of the evaluations since start, kept while
                    \* they are a prefix of out, in, in, in; <<"other">> afterwards
    drops,          \* ALERT -> NORMAL changes of alert_active while evals is kept
    tones,          \* tone patterns played by emitir_alerta while evals is kept
    \* ---- what the transport and the client saw of each connection
    tx,             \* by connection: the last request, the header and the pieces of
                    \* body handed to tcp_write for it, and the last callback
    \* ---- GET /json
    any_read,       \* a read of the AHT20 or of the BMP280 has succeeded
    json_resp,      \* the last response of GET /json
    shown,          \* the last lines atualizar_display pushed to the display
    \* ---- buttons
    ms_since_boot,  \* to_ms_since_boot(get_absolute_time()), a uint32_t
    ultima,         \* static uint32_t ultima of manipulador_interrupcao_gpio
    log_medicoes,   \* volatile bool log_medicoes
    bootsel,        \* reset_usb_boot was called: the firmware no longer runs
    since,          \* ms elapsed since the last accepted edge, counted up to
                    \* DEBOUNCE_MS (-1: no edge accepted yet)
    edge,           \* what the last call of manipulador_interrupcao_gpio did
    nedges,         \* edges delivered so far
    nsteps,         \* steps of the millisecond clock so far
    \* ---- configuration updates and the readers beside them
    upd,            \* the POST /cfg in progress: the writes of config it has made,
                    \* whether another task has read or written config since its
                    \* first write, and whether it wrote again after that
    \* ---- messages that arrive in several segments
    segs,           \* by connection: the segments delivered to webserver_recv
    \* ---- the acquisition cycle, observed
    cyc,            \* the last cycle: lock obtained, outcome of each read, reading before
    \* ---- status LED and link
    led,            \* the three outputs of the RGB LED
    wifi_connected, \* volatile bool wifi_connected
    web_pc,         \* where tarefa_webserver is
    wifi_attempts   \* int wifi_attempts of tarefa_webserver

cfgVars == <<config, mutex_config, post_pc, body_copy, strtok_save, pair, updated,
             updates, errors, resp, req_body, cfg_before, post_status,
             after_post, nreq>>

poolVars == <<active_connections, conn, naccept, now, sw_pc, sw_i, sw_state, overlap,
              sw_missed>>

alertVars == <<sensor_data, mutex_sensor, sn_pc, alert_active, al_pc, alerta, al_tick,
               nticks, evals, drops, tones>>

jsonVars == <<any_read, json_resp, shown>>

btnVars == <<ms_since_boot, ultima, log_medicoes, bootsel, since, edge, nedges, nsteps>>

linkVars == <<led, wifi_connected, web_pc, wifi_attempts>>

vars == <<cfgVars, poolVars, alertVars, tx, jsonVars, btnVars, upd, segs, cyc, linkVars>>

-----------------------------------------------------------------------------
(* Bounds of the model *)

MaxRequests == 2    \* POST /cfg requests in one behaviour
MaxPairs == 2       \* pairs in a sampled multi-pair body
MaxAccepts == 2     \* connections offered to the server in one behaviour
MaxTicks == 2       \* steps of the clock in one behaviour
MaxAlertTicks == 4  \* ticks of the alert task in one behaviour
MaxOffered == 5     \* connections offered in a behaviour that fills the pool
MaxTraced == 1      \* connections whose requests and transmissions are followed
MaxEdges == 3       \* button edges in one behaviour
MaxClockSteps == 3  \* steps of the millisecond clock between and before edges
MaxSegments == 2    \* receive notifications followed on one connection

-----------------------------------------------------------------------------
(* Program constants (hundredths) *)

TEMP_MIN_DEFAULT == 1500
TEMP_MAX_DEFAULT == 3000
HUM_MIN_DEFAULT == 3000
HUM_MAX_DEFAULT == 7000
PRESS_MIN_DEFAULT == 95000
PRESS_MAX_DEFAULT == 105000

\* Program constants of the connection manager
MAX_CONNECTIONS == 4
TCP_TIMEOUT_MS == 10000
TCP_CHUNK_SIZE == 512
MAX_REQUEST_SIZE == 1024

\* GPIO numbers of the buttons, and the debounce window of the edge handler (ms)
BTN_1 == 5
BTN_2 == 6
BTN_3 == 22
DEBOUNCE_MS == 200

Fields == {"temp_min", "temp_max", "hum_min", "hum_max", "press_min", "press_max",
           "temp_offset", "hum_offset", "press_offset"}

ConfigDefault ==
    [temp_min |-> TEMP_MIN_DEFAULT, temp_max |-> TEMP_MAX_DEFAULT,
     hum_min |-> HUM_MIN_DEFAULT, hum_max |-> HUM_MAX_DEFAULT,
     press_min |-> PRESS_MIN_DEFAULT, press_max |-> PRESS_MAX_DEFAULT,
     temp_offset |-> 0, hum_offset |-> 0, press_offset |-> 0]

-----------------------------------------------------------------------------
(* Strings: a string is a sequence of symbols.  "&" and "=" are the two     *)
(* delimiter characters, "NUL" is the terminator strtok writes, and every   *)
(* other symbol stands for a run of non-delimiter characters.               *)

NUL == "NUL"

\* the character at index i of buffer b; past the end is the terminator
CharAt(b, i) == IF i >= 1 /\ i <= Len(b) THEN b[i] ELSE NUL

RECURSIVE StrSpn(_, _, _)
\* index of the first character at or after i that is not the delimiter d
StrSpn(b, i, d) == IF CharAt(b, i) = d THEN StrSpn(b, i + 1, d) ELSE i

RECURSIVE StrCSpn(_, _, _)
\* index of the first delimiter d or terminator at or after i
StrCSpn(b, i, d) == IF CharAt(b, i) \in {d, NUL} THEN i ELSE StrCSpn(b, i + 1, d)

\* strtok(s, delim) on buffer b: s = 0 is strtok(NULL, delim) and continues at the
\* saved pointer sv.  tok = 0 is a NULL result.
Strtok(b, s, sv, d) ==
    LET from == IF s = 0 THEN sv ELSE s
        start == StrSpn(b, from, d)
        end == StrCSpn(b, start, d)
    IN  IF from = 0 \/ CharAt(b, start) = NUL
        THEN [tok |-> 0, buf |-> b, save |-> IF from = 0 THEN 0 ELSE start]
        ELSE IF CharAt(b, end) = NUL
             THEN [tok |-> start, buf |-> b, save |-> end]
             ELSE [tok |-> start, buf |-> [b EXCEPT ![end] = NUL], save |-> end + 1]

\* the C string that starts at index p of buffer b
StrAt(b, p) == SubSeq(b, p, StrCSpn(b, p, NUL) - 1)

\* the numeric lexemes of the model and their values in hundredths
NumValue == [n \in {"2.5", "2.57", "35", "40", "1000"} |->
                CASE n = "2.5" -> 250
                  [] n = "2.57" -> 257
                  [] n = "35" -> 3500
                  [] n = "40" -> 4000
                  [] n = "1000" -> 100000]

\* sscanf(value, "%f", &val): the number of conversions and the value read
Sscanf(s) ==
    IF Len(s) >= 1 /\ s[1] \in DOMAIN NumValue
    THEN [n |-> 1, val |-> NumValue[s[1]]]
    ELSE [n |-> 0, val |-> 0]

\* (mutant of Fmt1: the second decimal is cut instead of rounded)
Fmt1Trunc(v) == v \div 10

\* printf "%.1f": a value in hundredths rendered in tenths, rounded to nearest
Fmt1(v) == (v + 5) \div 10

\* snprintf of the nine fields with "%.1f" (GET /config)
FormatConfig(cfg) == [f \in Fields |-> Fmt1(cfg[f])]

-----------------------------------------------------------------------------
(* POST /cfg: validation of one key=value pair *)

MinKeys == {"temp_min", "hum_min", "press_min"}
MaxKeys == {"temp_max", "hum_max", "press_max"}

\* the other bound of a limit's dimension
Partner == [k \in MinKeys \cup MaxKeys |->
              CASE k = "temp_min" -> "temp_max" [] k = "temp_max" -> "temp_min"
                [] k = "hum_min" -> "hum_max"   [] k = "hum_max" -> "hum_min"
                [] k = "press_min" -> "press_max" [] k = "press_max" -> "press_min"]

\* the fixed range of each field, <<low, high>>
FieldRange == [k \in Fields |->
                 CASE k \in {"temp_min", "temp_max"} -> <<-5000, 5000>>
                   [] k \in {"hum_min", "hum_max"} -> <<0, 10000>>
                   [] k \in {"press_min", "press_max"} -> <<30000, 110000>>
                   [] k \in {"temp_offset", "hum_offset"} -> <<-1000, 1000>>
                   [] k = "press_offset" -> <<-5000, 5000>>]

\* val >= low && val <= high
InRange(k, val) == val >= FieldRange[k][1] /\ val <= FieldRange[k][2]

\* (mutant of CrossOk: the comparison is not strict)
CrossOkNotStrict(cfg, k, val) ==
    IF k \in MinKeys THEN val <= cfg[Partner[k]]
    ELSE IF k \in MaxKeys THEN val >= cfg[Partner[k]]
    ELSE TRUE

\* val < config.<max> for a minimum, val > config.<min> for a maximum
CrossOk(cfg, k, val) ==
    IF k \in MinKeys THEN val < cfg[Partner[k]]
    ELSE IF k \in MaxKeys THEN val > cfg[Partner[k]]
    ELSE TRUE

\* the strcmp chain: the configuration after the pair, whether it was applied,
\* and the field_name note of the error entry
ApplyPair(cfg, k, val) ==
    IF k \notin Fields
    THEN [cfg |-> cfg, valid |-> FALSE, note |-> "(desconhecido)"]
    ELSE IF ~InRange(k, val)
    THEN [cfg |-> cfg, valid |-> FALSE, note |-> ""]
    ELSE IF CrossOk(cfg, k, val)
    THEN [cfg |-> [cfg EXCEPT ![k] = val], valid |-> TRUE, note |-> ""]
    ELSE [cfg |-> cfg, valid |-> FALSE,
          note |-> IF k \in MinKeys THEN ">= max" ELSE "<= min"]

\* a key token as one name (a token of several symbols is no known field)
KeyName(s) == IF Len(s) = 1 THEN s[1] ELSE "?"

-----------------------------------------------------------------------------
(* Request bodies *)

Keys == Fields \cup {"foo"}
Lexemes == DOMAIN NumValue \cup {"abc"}

AllPairs == {<<k, "=", x>> : k \in Keys, x \in Lexemes}

MalformedPairs == {<<"temp_min">>, <<"temp_min", "=">>, <<"=", "35">>,
                   <<"temp_min", "=", "35", "=", "40">>}

SamplePairs == {<<"temp_min", "=", "35">>, <<"temp_max", "=", "40">>,
                <<"foo", "=", "35">>, <<"temp_min", "=", "abc">>, <<>>}

RECURSIVE JoinAmp(_)
JoinAmp(ps) == IF Len(ps) = 0 THEN <<>>
               ELSE IF Len(ps) = 1 THEN ps[1]
               ELSE ps[1] \o <<"&">> \o JoinAmp(Tail(ps))

Bodies == AllPairs \cup MalformedPairs \cup
          UNION {{JoinAmp(ps) : ps \in [1..n -> SamplePairs]} : n \in 2..MaxPairs}

-----------------------------------------------------------------------------
(* Actions of the configuration store *)

NoResp == [route |-> "none", status |-> 0, body |-> <<>>]

\* the record of the last POST /cfg is dropped once something else has run
ForgetPost ==
    /\ after_post' = "none"
    /\ req_body' = <<>>
    /\ cfg_before' = ConfigDefault
    /\ post_status' = 0

\* a POST /cfg that ended before the pair loop: the configuration it met is kept
RefusePost ==
    /\ after_post' = "refused"
    /\ req_body' = <<>>
    /\ cfg_before' = config
    /\ post_status' = 400

InitCfg ==
    /\ config = ConfigDefault
    /\ mutex_config = "none"
    /\ post_pc = "idle"
    /\ body_copy = <<>>
    /\ strtok_save = 0
    /\ pair = 0
    /\ updated = FALSE
    /\ updates = <<>>
    /\ errors = <<>>
    /\ resp = NoResp
    /\ req_body = <<>>
    /\ cfg_before = ConfigDefault
    /\ post_status = 0
    /\ after_post = "none"
    /\ nreq = 0

\* handle_http_request, GET /config: the configuration is read without the lock
GetConfig ==
    /\ post_pc = "idle"
    /\ resp' = [route |-> "config", status |-> 200, body |-> FormatConfig(config)]
    /\ IF after_post = "posted"
       THEN /\ after_post' = "reported"
            /\ UNCHANGED <<req_body, cfg_before, post_status>>
       ELSE ForgetPost
    /\ UNCHANGED <<config, mutex_config, post_pc, body_copy, strtok_save, pair,
                   updated, updates, errors, nreq>>

\* handle_http_request, POST /cfg without the blank-line separator
PostNoBody ==
    /\ post_pc = "idle"
    /\ resp' = [route |-> "cfg", status |-> 400,
                body |-> [status |-> "error", message |-> "Corpo ausente"]]
    /\ RefusePost
    /\ UNCHANGED <<config, mutex_config, post_pc, body_copy, strtok_save, pair,
                   updated, updates, errors, nreq>>

\* handle_http_request, POST /cfg when strdup(body) fails
PostStrdupFail ==
    /\ post_pc = "idle"
    /\ resp' = [route |-> "cfg", status |-> 500,
                body |-> [status |-> "error", message |-> "Erro interno"]]
    /\ ForgetPost
    /\ UNCHANGED <<config, mutex_config, post_pc, body_copy, strtok_save, pair,
                   updated, updates, errors, nreq>>

\* handle_http_request, POST /cfg: xSemaphoreTake(mutex_config) succeeds and the
\* first strtok(body_copy, "&") runs
PostBegin(body) ==
    /\ post_pc = "idle"
    /\ nreq < MaxRequests
    /\ mutex_config = "none"
    /\ LET t == Strtok(body, 1, 0, "&") IN
        /\ body_copy' = t.buf
        /\ strtok_save' = t.save
        /\ pair' = t.tok
    /\ mutex_config' = "web"
    /\ post_pc' = "loop"
    /\ updated' = FALSE
    /\ updates' = <<>>
    /\ errors' = <<>>
    /\ req_body' = body
    /\ cfg_before' = config
    /\ resp' = NoResp
    /\ post_status' = 0
    /\ after_post' = "none"
    /\ nreq' = nreq + 1
    /\ UNCHANGED <<config>>

\* handle_http_request, POST /cfg: xSemaphoreTake(mutex_config) times out
PostLockTimeout ==
    /\ post_pc = "idle"
    /\ mutex_config # "none"
    /\ resp' = [route |-> "cfg", status |-> 400,
                body |-> [status |-> "error", message |-> "Erro ao acessar configuracao",
                          updates |-> <<>>, errors |-> <<>>]]
    /\ RefusePost
    /\ UNCHANGED <<config, mutex_config, post_pc, body_copy, strtok_save, pair,
                   updated, updates, errors, nreq>>

\* one iteration of while (pair)
PostPair ==
    /\ post_pc = "loop"
    /\ pair # 0
    /\ LET k == Strtok(body_copy, pair, strtok_save, "=")
           v == Strtok(k.buf, 0, k.save, "=")
           nxt == Strtok(v.buf, 0, v.save, "&")
           key == KeyName(StrAt(v.buf, k.tok))
           value == StrAt(v.buf, v.tok)
           sc == Sscanf(value)
           ap == ApplyPair(config, key, sc.val)
       IN
        /\ body_copy' = nxt.buf
        /\ strtok_save' = nxt.save
        /\ pair' = nxt.tok
        /\ IF k.tok = 0 \/ v.tok = 0 \/ Len(value) = 0
           THEN UNCHANGED <<config, updated, updates, errors>>
           ELSE IF sc.n # 1
           THEN /\ errors' = Append(errors, [field |-> key, note |-> "",
                                             error |-> "Valor invalido"])
                /\ UNCHANGED <<config, updated, updates>>
           ELSE /\ config' = ap.cfg
                /\ IF ap.valid
                   THEN /\ updated' = TRUE
                        /\ updates' = Append(updates, [field |-> key,
                                                       value |-> Fmt1(sc.val)])
                        /\ UNCHANGED errors
                   ELSE /\ errors' = Append(errors, [field |-> key, note |-> ap.note,
                                                     error |-> "Valor fora do intervalo"])
                        /\ UNCHANGED <<updated, updates>>
    /\ UNCHANGED <<mutex_config, post_pc, resp, req_body, cfg_before, post_status,
                   after_post, nreq>>

\* (mutant of PostEnd: the status follows the errors list instead of the updated flag)
PostEndStatusFromErrors ==
    /\ post_pc = "loop"
    /\ pair = 0
    /\ resp' = [route |-> "cfg", status |-> IF errors = <<>> THEN 200 ELSE 400,
                body |-> [status |-> IF errors = <<>> THEN "success" ELSE "error",
                          message |-> IF errors = <<>> THEN "Configuracao salva"
                                      ELSE "Nenhum parametro valido aplicado",
                          updates |-> updates, errors |-> errors]]
    /\ post_status' = IF errors = <<>> THEN 200 ELSE 400
    /\ after_post' = "posted"
    /\ mutex_config' = "none"
    /\ post_pc' = "idle"
    /\ body_copy' = <<>>
    /\ strtok_save' = 0
    /\ updated' = FALSE
    /\ updates' = <<>>
    /\ errors' = <<>>
    /\ UNCHANGED <<config, pair, req_body, cfg_before, nreq>>

\* after the loop: the response is assembled, the lock given, the copy freed
PostEnd ==
    /\ post_pc = "loop"
    /\ pair = 0
    /\ resp' = [route |-> "cfg", status |-> IF updated THEN 200 ELSE 400,
                body |-> [status |-> IF updated THEN "success" ELSE "error",
                          message |-> IF updated THEN "Configuracao salva"
                                      ELSE "Nenhum parametro valido aplicado",
                          updates |-> updates, errors |-> errors]]
    /\ post_status' = IF updated THEN 200 ELSE 400
    /\ after_post' = "posted"
    /\ mutex_config' = "none"
    /\ post_pc' = "idle"
    /\ body_copy' = <<>>
    /\ strtok_save' = 0
    /\ updated' = FALSE
    /\ updates' = <<>>
    /\ errors' = <<>>
    /\ UNCHANGED <<config, pair, req_body, cfg_before, nreq>>

\* tratar_botao(BTN_3) from the GPIO interrupt: the reset is done under mutex_config;
\* a held mutex cannot be obtained from interrupt context and the reset is skipped
TratarBotao_BTN3 ==
    /\ IF mutex_config = "none"
       THEN /\ config' = ConfigDefault
            /\ ForgetPost
       ELSE UNCHANGED <<config, after_post, req_body, cfg_before, post_status>>
    /\ UNCHANGED <<mutex_config, post_pc, body_copy, strtok_save, pair, updated,
                   updates, errors, resp, nreq>>

\* tarefa_alerta takes mutex_config for its evaluation and gives it back
TarefaAlerta_TakeConfig ==
    /\ mutex_config = "none"
    /\ mutex_config' = "alert"
    /\ UNCHANGED <<config, post_pc, body_copy, strtok_save, pair, updated, updates,
                   errors, resp, req_body, cfg_before, post_status, after_post, nreq>>

TarefaAlerta_GiveConfig ==
    /\ mutex_config = "alert"
    /\ mutex_config' = "none"
    /\ UNCHANGED <<config, post_pc, body_copy, strtok_save, pair, updated, updates,
                   errors, resp, req_body, cfg_before, post_status, after_post, nreq>>

NextCfg ==
    /\ \/ GetConfig
       \/ PostNoBody
       \/ PostStrdupFail
       \/ \E body \in Bodies : PostBegin(body)
       \/ PostLockTimeout
       \/ PostPair
       \/ PostEnd
       \/ TratarBotao_BTN3
       \/ TarefaAlerta_TakeConfig
       \/ TarefaAlerta_GiveConfig
    /\ UNCHANGED <<poolVars, alertVars, tx, jsonVars, btnVars, upd, segs, cyc, linkVars>>

-----------------------------------------------------------------------------
(* Connection pool.  The callbacks (accept, receive, send-complete, error) run  *)
(* to completion in the task that pumps the transport; tarefa_timeout is        *)
(* another task, without any lock on the pool, so each of its memory accesses   *)
(* is a step of its own that the callbacks interleave with.                     *)

Slots == 0..(MAX_CONNECTIONS - 1)
ConnIds == 1..MaxAccepts

\* the connections of a behaviour that fills the pool
AllConnIds == 1..MaxOffered

\* the time that passes in one step of the clock: just over the idle timeout
TickMs == TCP_TIMEOUT_MS + 1

\* response bodies: the 13 bytes of "404 Not Found" (one chunk), and a body of three
\* chunks standing for html_page, which is sent in chunks of TCP_CHUNK_SIZE the same way
ShortBody == 13
LongBody == 2 * TCP_CHUNK_SIZE + 76

\* a conn_state_t that was never allocated; pcb is the state of its tcp_pcb
\* remaining_data is the offset of the cursor in the body it points into (0 for NULL)
NoConn == [st |-> "unborn", pcb |-> "none", cb |-> FALSE, timeout |-> 0,
           response_sent |-> FALSE, remaining_data |-> 0, remaining_len |-> 0,
           inflight |-> FALSE, closes |-> 0]

InitPool ==
    /\ active_connections = [i \in Slots |-> 0]
    /\ conn = [c \in AllConnIds |-> NoConn]
    /\ naccept = 0
    /\ now = 0
    /\ sw_pc = "test"
    /\ sw_i = 0
    /\ sw_state = 0
    /\ overlap = FALSE
    /\ sw_missed = 0

\* make_timeout_time_ms(TCP_TIMEOUT_MS)
MakeTimeout(t) == t + TCP_TIMEOUT_MS

\* C integer division, truncating toward zero
TruncDiv(a, b) == IF a >= 0 THEN a \div b ELSE -((-a) \div b)

\* absolute_time_diff_us(from, to), in microseconds
AbsoluteTimeDiffUs(from, to) == (to - from) * 1000


\* the sweep's test: absolute_time_diff_us(get_absolute_time(), timeout) / 1000
\*                    > TCP_TIMEOUT_MS
SweepExpired(t, timeout) ==
    TruncDiv(AbsoluteTimeDiffUs(t, timeout), 1000) > TCP_TIMEOUT_MS

\* the sweep has read slot i and has not finished with it
SweepInside(i) ==
    sw_i = i /\ sw_pc \in {"deadline", "call", "cc_slot", "cc_release", "clear"}

\* connection c is what the sweep is working on
SweepOn(c) ==
    \/ SweepInside(sw_i) /\ active_connections[sw_i] = c
    \/ sw_pc \in {"cc_slot", "cc_release"} /\ sw_state = c

\* the first slot that holds p, or -1
FirstSlot(p) ==
    IF \E i \in Slots : active_connections[i] = p
    THEN CHOOSE i \in Slots : active_connections[i] = p
                                /\ \A j \in Slots : j < i => active_connections[j] # p
    ELSE -1

\* close_connection(state) run in one piece: the slots and records after it.
\* closeOk is the result of tcp_close (FALSE leaves the handle open).
ClosedSlots(ac, c) ==
    LET hit == {i \in Slots : ac[i] = c}
        first == IF hit = {} THEN -1
                 ELSE CHOOSE i \in hit : \A j \in hit : i <= j
    IN  [i \in Slots |-> IF i = first THEN 0 ELSE ac[i]]

\* the record is released: what its fields held is gone with it
ClosedRecord(r, closeOk) ==
    [NoConn EXCEPT !.st = "freed",
                   !.pcb = IF r.pcb = "open" /\ closeOk THEN "closed" ELSE r.pcb,
                   !.closes = r.closes + 1]

\* (mutant of WebserverAcceptBody: a full pool gives up its first slot)
WebserverAcceptEvicts(allocOk) ==
    /\ naccept' = naccept + 1
    /\ LET c == naccept + 1
           free_slot == IF FirstSlot(0) = -1 THEN 0 ELSE FirstSlot(0)
       IN  IF ~allocOk
           THEN /\ conn' = [conn EXCEPT ![c] = [NoConn EXCEPT !.pcb = "closed"]]
                /\ UNCHANGED <<active_connections, overlap>>
           ELSE /\ conn' = [conn EXCEPT ![c] =
                               [NoConn EXCEPT !.st = "live", !.pcb = "open", !.cb = TRUE,
                                              !.timeout = MakeTimeout(now)]]
                /\ active_connections' = [active_connections EXCEPT ![free_slot] = c]
                /\ overlap' = (overlap \/ SweepInside(free_slot))
    /\ UNCHANGED <<now, sw_pc, sw_i, sw_state, sw_missed>>

\* webserver_accept for the next connection offered
WebserverAcceptBody(allocOk) ==
    /\ naccept' = naccept + 1
    /\ LET c == naccept + 1
           free_slot == FirstSlot(0)
       IN  IF free_slot = -1 \/ ~allocOk
           THEN \* tcp_close(newpcb); return ERR_MEM
                /\ conn' = [conn EXCEPT ![c] = [NoConn EXCEPT !.pcb = "closed"]]
                /\ UNCHANGED <<active_connections, overlap>>
           ELSE /\ conn' = [conn EXCEPT ![c] =
                               [NoConn EXCEPT !.st = "live", !.pcb = "open", !.cb = TRUE,
                                              !.timeout = MakeTimeout(now)]]
                /\ active_connections' = [active_connections EXCEPT ![free_slot] = c]
                /\ overlap' = (overlap \/ SweepInside(free_slot))
    /\ UNCHANGED <<now, sw_pc, sw_i, sw_state, sw_missed>>

\* webserver_accept
WebserverAccept(allocOk) ==
    /\ naccept < MaxAccepts
    /\ WebserverAcceptBody(allocOk)

\* webserver_accept in a behaviour that offers more connections than the pool holds
WebserverAcceptOffered(allocOk) ==
    /\ naccept < MaxOffered
    /\ WebserverAcceptBody(allocOk)

\* (mutant of SendHttpResponse: a header that cannot be written leaves the connection
\* up, to be tried again)
SendHttpResponseRetries(r, len, wr, closeOk) ==
    LET to_send == IF len > TCP_CHUNK_SIZE THEN TCP_CHUNK_SIZE ELSE len
    IN  IF wr = "hdr" THEN r
        ELSE IF wr = "body" /\ len > 0
        THEN ClosedRecord([r EXCEPT !.remaining_data = 0, !.remaining_len = len], closeOk)
        ELSE IF wr = "out"
        THEN ClosedRecord([r EXCEPT !.remaining_data = to_send,
                                    !.remaining_len = len - to_send], closeOk)
        ELSE [r EXCEPT !.remaining_data = to_send, !.remaining_len = len - to_send,
                       !.response_sent = TRUE, !.inflight = TRUE]

\* send_http_response(tpcb, header, body, state) for a body of len bytes; wr names the
\* transport call that fails ("hdr", "body", "out") or "ok"
SendHttpResponse(r, len, wr, closeOk) ==
    LET to_send == IF len > TCP_CHUNK_SIZE THEN TCP_CHUNK_SIZE ELSE len
    IN  IF wr = "hdr" THEN ClosedRecord(r, closeOk)
        ELSE IF wr = "body" /\ len > 0
        THEN ClosedRecord([r EXCEPT !.remaining_data = 0, !.remaining_len = len], closeOk)
        ELSE IF wr = "out"
        THEN ClosedRecord([r EXCEPT !.remaining_data = to_send,
                                    !.remaining_len = len - to_send], closeOk)
        ELSE [r EXCEPT !.remaining_data = to_send, !.remaining_len = len - to_send,
                       !.response_sent = TRUE, !.inflight = TRUE]

\* a callback of connection c can be delivered
Registered(c) == conn[c].st = "live" /\ conn[c].cb /\ conn[c].pcb = "open"

\* the frame of a callback on connection c that ends with record r
CallbackEnds(c, r) ==
    /\ conn' = [conn EXCEPT ![c] = r]
    /\ active_connections' = IF r.st = "freed" THEN ClosedSlots(active_connections, c)
                             ELSE active_connections
    /\ overlap' = (overlap \/ SweepOn(c))
    /\ UNCHANGED <<naccept, now, sw_pc, sw_i, sw_state, sw_missed>>

\* webserver_recv with p == NULL: the peer closed
WebserverRecvClosed(c, closeOk) ==
    /\ Registered(c)
    /\ CallbackEnds(c, ClosedRecord(conn[c], closeOk))

\* (mutant of WebserverRecvTooLarge: the answer is given a body of several chunks)
WebserverRecvTooLargeWithBody(c, wr, closeOk) ==
    /\ Registered(c)
    /\ CallbackEnds(c, SendHttpResponse(conn[c], LongBody, wr, closeOk))

\* webserver_recv with p->tot_len > MAX_REQUEST_SIZE: 413, no buffer, no timeout refresh
WebserverRecvTooLarge(c, wr, closeOk) ==
    /\ Registered(c)
    /\ CallbackEnds(c, SendHttpResponse(conn[c], 0, wr, closeOk))

\* webserver_recv with a request of at most MAX_REQUEST_SIZE bytes: the timeout is
\* refreshed, then either calloc fails (500, no body) or handle_http_request answers
\* with a body of len bytes
WebserverRecv(c, allocOk, len, wr, closeOk) ==
    /\ Registered(c)
    /\ CallbackEnds(c, SendHttpResponse([conn[c] EXCEPT !.timeout = MakeTimeout(now)],
                                        IF allocOk THEN len ELSE 0, wr, closeOk))

\* (mutant of WebserverSent: the cursor is not advanced past the chunk handed)
WebserverSentSameChunk(c, wr, closeOk) ==
    /\ Registered(c)
    /\ conn[c].inflight
    /\ LET r == conn[c]
           to_send == IF r.remaining_len > TCP_CHUNK_SIZE THEN TCP_CHUNK_SIZE
                      ELSE r.remaining_len
       IN  IF r.remaining_len > 0
           THEN IF wr \in {"body", "out"} THEN CallbackEnds(c, ClosedRecord(r, closeOk))
                ELSE CallbackEnds(c, [r EXCEPT !.remaining_len = r.remaining_len - to_send])
           ELSE CallbackEnds(c, ClosedRecord(r, closeOk))

\* (mutant of WebserverSent: the connection is kept when nothing remains)
WebserverSentKeepAlive(c, wr, closeOk) ==
    /\ Registered(c)
    /\ conn[c].inflight
    /\ LET r == conn[c]
           to_send == IF r.remaining_len > TCP_CHUNK_SIZE THEN TCP_CHUNK_SIZE
                      ELSE r.remaining_len
       IN  IF r.remaining_len > 0
           THEN IF wr \in {"body", "out"} THEN CallbackEnds(c, ClosedRecord(r, closeOk))
                ELSE CallbackEnds(c, [r EXCEPT !.remaining_data = r.remaining_data + to_send,
                                               !.remaining_len = r.remaining_len - to_send])
           ELSE CallbackEnds(c, [r EXCEPT !.inflight = FALSE])

\* webserver_sent: the next chunk, or teardown when nothing remains
WebserverSent(c, wr, closeOk) ==
    /\ Registered(c)
    /\ conn[c].inflight
    /\ LET r == conn[c]
           to_send == IF r.remaining_len > TCP_CHUNK_SIZE THEN TCP_CHUNK_SIZE
                      ELSE r.remaining_len
       IN  IF r.remaining_len > 0
           THEN IF wr = "body" THEN CallbackEnds(c, ClosedRecord(r, closeOk))
                ELSE IF wr = "out"
                THEN CallbackEnds(c, ClosedRecord(
                        [r EXCEPT !.remaining_data = r.remaining_data + to_send,
                                  !.remaining_len = r.remaining_len - to_send], closeOk))
                ELSE CallbackEnds(c, [r EXCEPT !.remaining_data = r.remaining_data + to_send,
                                               !.remaining_len = r.remaining_len - to_send])
           ELSE CallbackEnds(c, ClosedRecord(r, closeOk))

\* webserver_error: the transport has already freed the pcb when it calls back
WebserverError(c) ==
    /\ Registered(c)
    /\ CallbackEnds(c, ClosedRecord([conn[c] EXCEPT !.pcb = "freed"], FALSE))

\* time passes
Tick ==
    /\ now < MaxTicks * TickMs
    /\ now' = now + TickMs
    /\ UNCHANGED <<active_connections, conn, naccept, sw_pc, sw_i, sw_state, overlap,
                   sw_missed>>

\* tarefa_timeout: end of the body of the for loop, i++
SweepAdvance ==
    IF sw_i + 1 < MAX_CONNECTIONS
    THEN sw_pc' = "test" /\ sw_i' = sw_i + 1
    ELSE sw_pc' = "sleep" /\ sw_i' = 0

\* tarefa_timeout: vTaskDelay(1000) returns and the scan starts again
SweepWake ==
    /\ sw_pc = "sleep"
    /\ sw_pc' = "test"
    /\ sw_i' = 0
    /\ UNCHANGED <<active_connections, conn, naccept, now, sw_state, overlap, sw_missed>>

\* tarefa_timeout: if (active_connections[i] != NULL)
SweepTest ==
    /\ sw_pc = "test"
    /\ IF active_connections[sw_i] # 0
       THEN sw_pc' = "deadline" /\ UNCHANGED sw_i
       ELSE SweepAdvance
    /\ sw_missed' = 0
    /\ UNCHANGED <<active_connections, conn, naccept, now, sw_state, overlap>>

\* tarefa_timeout: the test of active_connections[i]->timeout.  The slot is read
\* again; when a callback has emptied it since the test, the read goes through a null
\* pointer and the outcome of the comparison is arbitrary.
SweepDeadline(garbage) ==
    /\ sw_pc = "deadline"
    /\ LET s == active_connections[sw_i]
           expired == IF s = 0 THEN garbage ELSE SweepExpired(now, conn[s].timeout)
       IN  /\ IF expired
              THEN sw_pc' = "call" /\ UNCHANGED sw_i
              ELSE SweepAdvance
           /\ sw_missed' = IF s # 0 /\ ~expired /\ now > conn[s].timeout THEN s ELSE 0
    /\ UNCHANGED <<active_connections, conn, naccept, now, sw_state, overlap>>

\* tarefa_timeout: close_connection(active_connections[i]) is entered; the guard
\* if (state == NULL || state->pcb == NULL) return
SweepCall ==
    /\ sw_pc = "call"
    /\ IF active_connections[sw_i] = 0
       THEN sw_pc' = "clear" /\ sw_state' = 0
       ELSE sw_pc' = "cc_slot" /\ sw_state' = active_connections[sw_i]
    /\ UNCHANGED <<active_connections, conn, naccept, now, sw_i, overlap, sw_missed>>

\* close_connection in the sweep task: the loop that clears the slot of state
SweepCcSlot ==
    /\ sw_pc = "cc_slot"
    /\ active_connections' = ClosedSlots(active_connections, sw_state)
    /\ sw_pc' = "cc_release"
    /\ UNCHANGED <<conn, naccept, now, sw_i, sw_state, overlap, sw_missed>>

\* close_connection in the sweep task: callbacks unregistered, tcp_close, free(state).
\* The record may have been freed by a callback since the guard; the handle and the
\* record are then released a second time.
SweepCcRelease(closeOk) ==
    /\ sw_pc = "cc_release"
    /\ conn' = [conn EXCEPT ![sw_state] = ClosedRecord(conn[sw_state], closeOk)]
    /\ sw_pc' = "clear"
    /\ sw_state' = 0
    /\ UNCHANGED <<active_connections, naccept, now, sw_i, overlap, sw_missed>>

\* tarefa_timeout: active_connections[i] = NULL
SweepClear ==
    /\ sw_pc = "clear"
    /\ active_connections' = [active_connections EXCEPT ![sw_i] = 0]
    /\ SweepAdvance
    /\ UNCHANGED <<conn, naccept, now, sw_state, overlap, sw_missed>>

SweepNext ==
    \/ SweepWake
    \/ SweepTest
    \/ \E garbage \in BOOLEAN : SweepDeadline(garbage)
    \/ SweepCall
    \/ SweepCcSlot
    \/ \E closeOk \in BOOLEAN : SweepCcRelease(closeOk)
    \/ SweepClear

WriteOutcomes == {"ok", "hdr", "body", "out"}

PumpNext ==
    \/ \E allocOk \in BOOLEAN : WebserverAccept(allocOk)
    \/ \E c \in ConnIds, closeOk \in BOOLEAN : WebserverRecvClosed(c, closeOk)
    \/ \E c \in ConnIds, wr \in WriteOutcomes, closeOk \in BOOLEAN :
          WebserverRecvTooLarge(c, wr, closeOk)
    \/ \E c \in ConnIds, allocOk \in BOOLEAN, len \in {ShortBody, LongBody},
          wr \in WriteOutcomes, closeOk \in BOOLEAN :
          WebserverRecv(c, allocOk, len, wr, closeOk)
    \/ \E c \in ConnIds, wr \in WriteOutcomes, closeOk \in BOOLEAN :
          WebserverSent(c, wr, closeOk)
    \/ \E c \in ConnIds : WebserverError(c)

NextPool ==
    /\ \/ PumpNext
       \/ SweepNext
       \/ Tick
    /\ UNCHANGED <<cfgVars, alertVars, tx, jsonVars, btnVars, upd, segs, cyc, linkVars>>

-----------------------------------------------------------------------------
(* Sensor reading, acquisition task and alert task.  A lock taken with a bounded  *)
(* wait is obtained when it is free; when another holder keeps it for the whole   *)
(* wait, the take fails.                                                          *)

Dimensions == {"temp", "hum", "press"}

\* the values the sensors deliver (hundredths), around the default limits
AhtTemperatures == {1499, 1500, 3001}
AhtHumidities == {5000}
BmpPressures == {100000}

\* requests that change the limits and offsets while the alert task runs
AlertBodies == {<<"temp_min", "=", "2.5">>, <<"temp_offset", "=", "2.5">>}

\* (mutant of SensorZero: the reading starts with values that are not zero)
SensorUnset == [temp_aht20 |-> 2000, hum_aht20 |-> 5000, press_bmp280 |-> 100000]

\* sensor_data before the acquisition task has written it: a global without
\* initialiser is zero
SensorZero == [temp_aht20 |-> 0, hum_aht20 |-> 0, press_bmp280 |-> 0]

\* the variables of the configuration part other than mutex_config
cfgRest == <<config, post_pc, body_copy, strtok_save, pair, updated, updates, errors,
             resp, req_body, cfg_before, post_status, after_post, nreq>>

NoTick == [before |-> FALSE, evaluated |-> FALSE, out |-> FALSE, onbound |-> FALSE,
           toned |-> FALSE]

InitAlert ==
    /\ sensor_data = SensorZero
    /\ mutex_sensor = "none"
    /\ sn_pc = "idle"
    /\ alert_active = FALSE
    /\ al_pc = "sleep"
    /\ alerta = FALSE
    /\ al_tick = NoTick
    /\ nticks = 0
    /\ evals = <<>>
    /\ drops = 0
    /\ tones = 0

\* the reading and the limits of each dimension
ReadingOf(sd) == [d \in Dimensions |->
                    CASE d = "temp" -> sd.temp_aht20
                      [] d = "hum" -> sd.hum_aht20
                      [] d = "press" -> sd.press_bmp280]
LimitsOf(cfg) == [d \in Dimensions |->
                    CASE d = "temp" -> <<cfg.temp_min, cfg.temp_max>>
                      [] d = "hum" -> <<cfg.hum_min, cfg.hum_max>>
                      [] d = "press" -> <<cfg.press_min, cfg.press_max>>]

\* some dimension of the reading is outside its [min, max]
AnyOutside(sd, cfg) ==
    \E d \in Dimensions : ~(LimitsOf(cfg)[d][1] <= ReadingOf(sd)[d]
                             /\ ReadingOf(sd)[d] <= LimitsOf(cfg)[d][2])

\* some dimension of the reading is equal to one of its bounds
AnyOnBound(sd, cfg) ==
    \E d \in Dimensions : ReadingOf(sd)[d] \in {LimitsOf(cfg)[d][1], LimitsOf(cfg)[d][2]}

\* (mutant of Evaluate: a value equal to a bound counts as outside)
EvaluateInclusive(sd, cfg) ==
    \/ sd.temp_aht20 <= cfg.temp_min \/ sd.temp_aht20 >= cfg.temp_max
    \/ sd.hum_aht20 <= cfg.hum_min \/ sd.hum_aht20 >= cfg.hum_max
    \/ sd.press_bmp280 <= cfg.press_min \/ sd.press_bmp280 >= cfg.press_max

\* the condition of tarefa_alerta
Evaluate(sd, cfg) ==
    \/ sd.temp_aht20 < cfg.temp_min \/ sd.temp_aht20 > cfg.temp_max
    \/ sd.hum_aht20 < cfg.hum_min \/ sd.hum_aht20 > cfg.hum_max
    \/ sd.press_bmp280 < cfg.press_min \/ sd.press_bmp280 > cfg.press_max

\* tarefa_alerta: bool alerta = false; xSemaphoreTake(mutex_sensor, 100 ms).  When the
\* take fails the && is false and the comparison with alert_active follows.
AlTakeSensor ==
    /\ al_pc = "sleep"
    /\ nticks < MaxAlertTicks
    /\ nticks' = nticks + 1
    /\ alerta' = FALSE
    /\ al_tick' = [NoTick EXCEPT !.before = alert_active,
                                 !.out = AnyOutside(sensor_data, config)]
    /\ IF mutex_sensor = "none"
       THEN mutex_sensor' = "alert" /\ al_pc' = "take_cfg"
       ELSE UNCHANGED mutex_sensor /\ al_pc' = "compare"
    /\ UNCHANGED <<sensor_data, sn_pc, alert_active, evals, drops, tones>>
    /\ UNCHANGED <<mutex_config, cfgRest>>

\* tarefa_alerta: && xSemaphoreTake(mutex_config, 100 ms).  When this take fails the
\* body of the if, with both xSemaphoreGive calls, is not executed.
AlTakeConfig ==
    /\ al_pc = "take_cfg"
    /\ al_tick' = [al_tick EXCEPT !.out = AnyOutside(sensor_data, config)]
    /\ IF mutex_config = "none"
       THEN mutex_config' = "alert" /\ al_pc' = "eval"
       ELSE UNCHANGED mutex_config /\ al_pc' = "compare"
    /\ UNCHANGED <<sensor_data, mutex_sensor, sn_pc, alert_active, alerta, nticks, evals,
                   drops, tones>>
    /\ UNCHANGED cfgRest

\* tarefa_alerta: the comparison of the reading with the limits, then both gives
AlEval ==
    /\ al_pc = "eval"
    /\ alerta' = Evaluate(sensor_data, config)
    /\ al_tick' = [al_tick EXCEPT !.evaluated = TRUE,
                                  !.out = AnyOutside(sensor_data, config),
                                  !.onbound = AnyOnBound(sensor_data, config)]
    /\ mutex_sensor' = "none"
    /\ mutex_config' = "none"
    /\ al_pc' = "compare"
    /\ UNCHANGED <<sensor_data, sn_pc, alert_active, nticks, evals, drops, tones>>
    /\ UNCHANGED cfgRest

\* (mutant of AlCompare: the tone is played whenever alerta is true)
AlCompareToneWhileAlert ==
    /\ al_pc = "compare"
    /\ al_pc' = IF alerta THEN "tone" ELSE "assign"
    /\ UNCHANGED <<sensor_data, mutex_sensor, sn_pc, alert_active, alerta, al_tick, nticks,
                   evals, drops, tones>>
    /\ UNCHANGED <<mutex_config, cfgRest>>

\* tarefa_alerta: if (alert_active != alerta) { if (alerta) ... }
AlCompare ==
    /\ al_pc = "compare"
    /\ al_pc' = IF alert_active # alerta /\ alerta THEN "tone" ELSE "assign"
    /\ UNCHANGED <<sensor_data, mutex_sensor, sn_pc, alert_active, alerta, al_tick, nticks,
                   evals, drops, tones>>
    /\ UNCHANGED <<mutex_config, cfgRest>>

\* emitir_alerta: three pulses, played inside the tick
AlTone ==
    /\ al_pc = "tone"
    /\ tones' = IF evals = <<"other">> THEN 0 ELSE tones + 1
    /\ al_tick' = [al_tick EXCEPT !.toned = TRUE]
    /\ al_pc' = "assign"
    /\ UNCHANGED <<sensor_data, mutex_sensor, sn_pc, alert_active, alerta, nticks, evals,
                   drops>>
    /\ UNCHANGED <<mutex_config, cfgRest>>

\* the evaluations so far with outcome o added, while they follow the example
Example == <<"out", "in", "in", "in">>
FollowExample(es, o) ==
    IF es # <<"other">> /\ Len(es) < Len(Example) /\ Example[Len(es) + 1] = o
    THEN Append(es, o)
    ELSE <<"other">>

\* tarefa_alerta: alert_active = alerta; atualizar_led_status(); vTaskDelay(500)
AlAssign ==
    /\ al_pc = "assign"
    /\ alert_active' = alerta
    /\ evals' = IF al_tick.evaluated
                THEN FollowExample(evals, IF al_tick.out THEN "out" ELSE "in")
                ELSE evals
    /\ drops' = IF evals' = <<"other">> THEN 0
                ELSE IF alert_active /\ ~alerta THEN drops + 1 ELSE drops
    /\ tones' = IF evals' = <<"other">> THEN 0 ELSE tones
    /\ al_pc' = "sleep"
    /\ UNCHANGED <<sensor_data, mutex_sensor, sn_pc, alerta, al_tick, nticks>>
    /\ UNCHANGED <<mutex_config, cfgRest>>

TarefaAlertaNext ==
    \/ AlTakeSensor
    \/ AlTakeConfig
    \/ AlEval
    \/ AlCompare
    \/ AlTone
    \/ AlAssign

\* tarefa_leitura_sensores: xSemaphoreTake(mutex_sensor, 100 ms); a failed take skips
\* the cycle
SensTake ==
    /\ sn_pc = "idle"
    /\ IF mutex_sensor = "none"
       THEN mutex_sensor' = "sens" /\ sn_pc' = "aht"
       ELSE UNCHANGED <<mutex_sensor, sn_pc>>
    /\ UNCHANGED <<sensor_data, alert_active, al_pc, alerta, al_tick, nticks, evals, drops,
                   tones>>

\* (mutant of SensAht: a failed read leaves the two fields as they were)
SensAhtKeepsOnFailure(ok, t, h) ==
    /\ sn_pc = "aht"
    /\ sensor_data' = IF ok
                      THEN [sensor_data EXCEPT !.temp_aht20 = t + config.temp_offset,
                                               !.hum_aht20 = h + config.hum_offset]
                      ELSE sensor_data
    /\ sn_pc' = "bmp"
    /\ UNCHANGED <<mutex_sensor, alert_active, al_pc, alerta, al_tick, nticks, evals, drops,
                   tones>>

\* tarefa_leitura_sensores: aht20_read and the two fields it feeds; the offsets are
\* read from config as it is at that moment
SensAht(ok, t, h) ==
    /\ sn_pc = "aht"
    /\ sensor_data' = IF ok
                      THEN [sensor_data EXCEPT !.temp_aht20 = t + config.temp_offset,
                                               !.hum_aht20 = h + config.hum_offset]
                      ELSE [sensor_data EXCEPT !.temp_aht20 = 0, !.hum_aht20 = 0]
    /\ sn_pc' = "bmp"
    /\ UNCHANGED <<mutex_sensor, alert_active, al_pc, alerta, al_tick, nticks, evals, drops,
                   tones>>

\* tarefa_leitura_sensores: bmp280_read_raw, the pressure field, xSemaphoreGive
SensBmp(ok, p) ==
    /\ sn_pc = "bmp"
    /\ sensor_data' = [sensor_data EXCEPT
                         !.press_bmp280 = IF ok THEN p + config.press_offset ELSE 0]
    /\ mutex_sensor' = "none"
    /\ sn_pc' = "idle"
    /\ UNCHANGED <<alert_active, al_pc, alerta, al_tick, nticks, evals, drops, tones>>

TarefaLeituraSensoresNext ==
    \/ SensTake
    \/ \E ok \in BOOLEAN, t \in AhtTemperatures, h \in AhtHumidities : SensAht(ok, t, h)
    \/ \E ok \in BOOLEAN, p \in BmpPressures : SensBmp(ok, p)

NextAlert ==
    /\ \/ TarefaAlertaNext
       \/ TarefaLeituraSensoresNext /\ UNCHANGED cfgVars
       \/ (\E body \in AlertBodies : PostBegin(body)) /\ UNCHANGED alertVars
       \/ PostPair /\ UNCHANGED alertVars
       \/ PostEnd /\ UNCHANGED alertVars
       \/ TratarBotao_BTN3 /\ UNCHANGED alertVars
    /\ UNCHANGED <<poolVars, tx, jsonVars, btnVars, upd, segs, cyc, linkVars>>

-----------------------------------------------------------------------------
(* Requests and their dispatch.  A request is a sequence of symbols: the method  *)
(* with its blank, "/", the words of the path, the protocol, the blank line      *)
(* "CRLFCRLF", and the symbols of the body.                                      *)

\* strstr(h, n) != NULL
StrStr(h, n) ==
    \E i \in 1..(Len(h) - Len(n) + 1) : SubSeq(h, i, i + Len(n) - 1) = n

RequestLine(method, path) == <<method, "/">> \o path \o <<" HTTP/1.1">>

Requests ==
    {<<>>,
     RequestLine("GET ", <<>>) \o <<"CRLFCRLF">>,
     RequestLine("GET ", <<"index.html">>) \o <<"CRLFCRLF">>,
     RequestLine("GET ", <<"json">>) \o <<"CRLFCRLF">>,
     RequestLine("GET ", <<"config">>) \o <<"CRLFCRLF">>,
     RequestLine("GET ", <<"foo">>) \o <<"CRLFCRLF">>,
     RequestLine("POST ", <<"cfg">>) \o <<"CRLFCRLF", "temp_min", "=", "35">>,
     RequestLine("POST ", <<"cfg">>),
     RequestLine("POST ", <<"foo">>) \o <<"CRLFCRLF", "temp_min", "=", "35">>,
     RequestLine("PUT ", <<"json">>) \o <<"CRLFCRLF">>,
     RequestLine("POST ", <<"up">>) \o <<"CRLFCRLF", "GET ", "/", "json">>}

\* the chain of strstr tests of handle_http_request
Dispatch(req) ==
    IF Len(req) = 0 THEN "empty"
    ELSE IF StrStr(req, <<"GET ", "/", "json">>) THEN "json"
    ELSE IF StrStr(req, <<"GET ", "/", "config">>) THEN "config"
    ELSE IF StrStr(req, <<"POST ", "/", "cfg">>) THEN "cfg"
    ELSE IF StrStr(req, <<"GET ", "/">>) \/ StrStr(req, <<"GET ", "/", "index.html">>)
    THEN "index"
    ELSE "notfound"

\* what the update of a POST /cfg with a body comes to: the copy of the body cannot be
\* allocated, a field is applied, or none is (no valid pair, or the lock not obtained)
CfgOutcomes == {"nomem", "applied", "none"}

\* the status line and the cross-origin headers of the header each branch builds
Header(branch, req, outcome) ==
    CASE branch = "empty" -> [status |-> 400, cors |-> FALSE]
      [] branch = "json" -> [status |-> 200, cors |-> TRUE]
      [] branch = "config" -> [status |-> 200, cors |-> TRUE]
      [] branch = "cfg" ->
            IF ~StrStr(req, <<"CRLFCRLF">>) THEN [status |-> 400, cors |-> TRUE]
            ELSE IF outcome = "nomem" THEN [status |-> 500, cors |-> TRUE]
            ELSE IF outcome = "applied" THEN [status |-> 200, cors |-> TRUE]
            ELSE [status |-> 400, cors |-> TRUE]
      [] branch = "index" -> [status |-> 200, cors |-> TRUE]
      [] branch = "notfound" -> [status |-> 404, cors |-> TRUE]

\* strlen(body) of the body each branch passes: html_page takes several chunks, the
\* bodies built in json[128], json[256] and response[512] and the literal ones fit one
\* chunk, and the empty-request answer has no body
BodyLen(branch) ==
    IF branch = "empty" THEN 0
    ELSE IF branch = "index" THEN LongBody
    ELSE ShortBody

NoTx == [req |-> <<>>, kind |-> "none", status |-> 0, cors |-> FALSE,
         buffered |-> FALSE, routed |-> FALSE, body_len |-> 0, pieces |-> <<>>,
         sents |-> 0, ev |-> [cb |-> "none", wr |-> "ok", rem |-> 0]]

InitTx == tx = [c \in AllConnIds |-> NoTx]

\* tcp_write of the header, and of a piece of body, succeeded
HeaderWritten(wr) == wr # "hdr"
BodyWritten(wr) == wr \notin {"hdr", "body"}

\* what the transport holds of a response after send_http_response: the piece of body
\* it was handed goes from the start of the body to where the cursor was left
Answered(c, req, kind, hd, buffered, routed, len, wr) ==
    [req |-> req, kind |-> kind, status |-> IF HeaderWritten(wr) THEN hd.status ELSE 0,
     cors |-> hd.cors, buffered |-> buffered, routed |-> routed, body_len |-> len,
     pieces |-> IF len > 0 /\ BodyWritten(wr) /\ conn'[c].st = "live"
                THEN << <<0, conn'[c].remaining_data>> >>
                ELSE <<>>,
     sents |-> 0,
     ev |-> [cb |-> "recv", wr |-> wr, rem |-> 0]]

\* webserver_accept, seen from the transport
ConnAccept(allocOk) ==
    /\ naccept < MaxTraced
    /\ WebserverAccept(allocOk)
    /\ UNCHANGED tx

\* webserver_recv(p == NULL), seen from the transport
ConnRecvClosed(c, closeOk) ==
    /\ WebserverRecvClosed(c, closeOk)
    /\ tx' = [tx EXCEPT ![c].ev = [cb |-> "closed", wr |-> "ok", rem |-> 0]]

\* webserver_recv of more than MAX_REQUEST_SIZE bytes: the 413 header has no
\* cross-origin lines and no body is passed
ConnRecvTooLarge(c, wr, closeOk) ==
    /\ WebserverRecvTooLarge(c, wr, closeOk)
    /\ tx' = [tx EXCEPT ![c] = Answered(c, <<"toolarge">>, "toolarge",
                                        [status |-> 413, cors |-> FALSE],
                                        FALSE, FALSE, 0, wr)]

\* webserver_recv of a request: calloc of the request buffer fails (500 without
\* cross-origin lines), or the request is copied and handle_http_request dispatches it
ConnRecv(c, req, allocOk, outcome, wr, closeOk) ==
    LET branch == Dispatch(req) IN
    /\ WebserverRecv(c, allocOk, BodyLen(branch), wr, closeOk)
    /\ tx' = [tx EXCEPT ![c] =
                IF allocOk
                THEN Answered(c, req, branch, Header(branch, req, outcome),
                              TRUE, TRUE, BodyLen(branch), wr)
                ELSE Answered(c, <<"unread">>, "nomem", [status |-> 500, cors |-> FALSE],
                              FALSE, FALSE, 0, wr)]

\* webserver_sent, seen from the transport: the piece handed starts where the cursor
\* was and has the length the remaining length went down by
ConnSent(c, wr, closeOk) ==
    /\ WebserverSent(c, wr, closeOk)
    /\ tx' = [tx EXCEPT
                ![c].pieces = IF conn[c].remaining_len > 0 /\ conn'[c].st = "live"
                              THEN Append(@, <<conn[c].remaining_data,
                                               conn[c].remaining_len
                                                  - conn'[c].remaining_len>>)
                              ELSE @,
                ![c].sents = @ + 1,
                ![c].ev = [cb |-> "sent", wr |-> wr, rem |-> conn[c].remaining_len]]

\* webserver_error, seen from the transport
ConnError(c) ==
    /\ WebserverError(c)
    /\ tx' = [tx EXCEPT ![c].ev = [cb |-> "err", wr |-> "ok", rem |-> 0]]

\* the results of tcp_close that make a difference after a write with outcome wr
CloseOutcomes(wr) == IF wr = "ok" THEN {TRUE} ELSE BOOLEAN

\* the outcomes of the update that make a difference for request req
OutcomesOf(req) ==
    IF Dispatch(req) = "cfg" /\ StrStr(req, <<"CRLFCRLF">>) THEN CfgOutcomes ELSE {"none"}

NextConn ==
    /\ \/ \E allocOk \in BOOLEAN : ConnAccept(allocOk)
       \/ \E c \in ConnIds, closeOk \in BOOLEAN : ConnRecvClosed(c, closeOk)
       \/ \E c \in ConnIds, wr \in WriteOutcomes : \E closeOk \in CloseOutcomes(wr) :
             ConnRecvTooLarge(c, wr, closeOk)
       \/ \E c \in ConnIds, req \in Requests, wr \in WriteOutcomes :
             \E outcome \in OutcomesOf(req), closeOk \in CloseOutcomes(wr) :
                ConnRecv(c, req, TRUE, outcome, wr, closeOk)
       \/ \E c \in ConnIds, wr \in WriteOutcomes : \E closeOk \in CloseOutcomes(wr) :
             ConnRecv(c, <<>>, FALSE, "none", wr, closeOk)
       \/ \E c \in ConnIds, wr \in WriteOutcomes, closeOk \in BOOLEAN :
             ConnSent(c, wr, closeOk)
       \/ \E c \in ConnIds : ConnError(c)
    /\ UNCHANGED <<cfgVars, alertVars, jsonVars, btnVars, upd, segs, cyc, linkVars>>

-----------------------------------------------------------------------------
(* GET /json beside the acquisition task *)

NoJson == [status |-> 0, body |-> <<>>, unread |-> FALSE, mid |-> FALSE]

NoShown == [drawn |-> FALSE, lines |-> <<>>, mid |-> FALSE]

InitJson ==
    /\ any_read = FALSE
    /\ json_resp = NoJson
    /\ shown = NoShown

\* the acquisition task is inside a cycle and has written the temperature and the
\* humidity of this cycle, while the pressure is still the one of the cycle before
MidCycle == sn_pc = "bmp"

\* snprintf of the three fields with "%.1f" (GET /json)
JsonBody(sd) == [temp_aht20 |-> Fmt1(sd.temp_aht20), hum_aht20 |-> Fmt1(sd.hum_aht20),
                 press_bmp280 |-> Fmt1(sd.press_bmp280)]

\* handle_http_request, GET /json: the reading is formatted as it is, without the lock
\* and whatever the acquisition task has done so far
GetJson ==
    /\ json_resp' = [status |-> 200, body |-> JsonBody(sensor_data),
                     unread |-> ~any_read, mid |-> MidCycle]
    /\ UNCHANGED <<any_read, shown, alertVars>>

\* atualizar_display, called by tarefa_display: the three values are formatted with
\* "%.1f" out of sensor_data as it is, without the lock
AtualizarDisplay ==
    /\ shown' = [drawn |-> TRUE,
                 lines |-> <<Fmt1(sensor_data.temp_aht20), Fmt1(sensor_data.hum_aht20),
                             Fmt1(sensor_data.press_bmp280)>>,
                 mid |-> MidCycle]
    /\ UNCHANGED <<any_read, json_resp, alertVars>>

\* the acquisition task, with the note of a successful read
SensorCycle ==
    \/ SensTake /\ UNCHANGED any_read
    \/ \E ok \in BOOLEAN, t \in AhtTemperatures, h \in AhtHumidities :
          SensAht(ok, t, h) /\ any_read' = (any_read \/ ok)
    \/ \E ok \in BOOLEAN, p \in BmpPressures :
          SensBmp(ok, p) /\ any_read' = (any_read \/ ok)

NextJson ==
    /\ \/ GetJson
       \/ AtualizarDisplay
       \/ SensorCycle /\ UNCHANGED <<json_resp, shown>>
    /\ UNCHANGED <<cfgVars, poolVars, tx, btnVars, upd, segs, cyc, linkVars>>

-----------------------------------------------------------------------------
(* Buttons.  The three falling edges share one interrupt handler; the handler   *)
(* runs to completion.  to_ms_since_boot returns a uint32_t, so the clock and   *)
(* the difference agora - ultima are taken modulo 2^32.  A uint32_t is written  *)
(* as the pair of its 16-bit halves <<high, low>>.                              *)

Half == 65536

\* the uint32_t of a number below 2^16
U32(n) == <<0, n>>

\* a + b and a - b in uint32_t arithmetic
Add32(a, b) ==
    LET lo == a[2] + b[2] IN <<(a[1] + b[1] + (lo \div Half)) % Half, lo % Half>>
Sub32(a, b) ==
    LET lo == a[2] - b[2] IN
    <<(a[1] - b[1] - (IF lo < 0 THEN 1 ELSE 0)) % Half, lo % Half>>

\* a < n for a uint32_t a and a number n below 2^16
Below32(a, n) == a[1] = 0 /\ a[2] < n

\* a < b for two uint32_t
Less32(a, b) == a[1] < b[1] \/ (a[1] = b[1] /\ a[2] < b[2])

Buttons == {BTN_1, BTN_2, BTN_3}

\* the steps the millisecond clock makes between edges: around the debounce window,
\* and one that takes the counter to just below its wrap
ClockSteps == {U32(1), U32(DEBOUNCE_MS - 1), U32(DEBOUNCE_MS), <<Half - 1, Half - 100>>}

\* a request that makes the configuration differ from the defaults
BtnBodies == {<<"temp_offset", "=", "2.5">>}

\* tratar_botao: the calls of each branch that can suspend the caller, with the time
\* in milliseconds they are given: xSemaphoreTake(mutex_config, pdMS_TO_TICKS(100)) for
\* the reset, sleep_ms(100) before reset_usb_boot, none for the log switch
BlockingCalls(btn) ==
    CASE btn = BTN_3 -> <<[call |-> "xSemaphoreTake", ms |-> 100]>>
      [] btn = BTN_2 -> <<[call |-> "sleep_ms", ms |-> 100]>>
      [] btn = BTN_1 -> <<>>

NoEdge == [btn |-> 0, accepted |-> FALSE, gap |-> -1, locked |-> FALSE,
           was_default |-> TRUE, waits |-> <<>>]

InitBtn ==
    /\ ms_since_boot = U32(0)
    /\ ultima = U32(0)
    /\ log_medicoes = TRUE
    /\ bootsel = FALSE
    /\ since = -1
    /\ edge = NoEdge
    /\ nedges = 0
    /\ nsteps = 0

\* time passes
ClockStep(d) ==
    /\ ~bootsel
    /\ nsteps < MaxClockSteps
    /\ nsteps' = nsteps + 1
    /\ ms_since_boot' = Add32(ms_since_boot, d)
    /\ since' = IF since = -1 THEN -1
                ELSE IF d[1] > 0 \/ since + d[2] > DEBOUNCE_MS THEN DEBOUNCE_MS
                ELSE since + d[2]
    /\ UNCHANGED <<ultima, log_medicoes, bootsel, edge, nedges>>
    /\ UNCHANGED cfgVars

\* (mutant of Bouncing: the window is one millisecond shorter)
BouncingShort(agora, ult) == Below32(Sub32(agora, ult), DEBOUNCE_MS - 1)

\* manipulador_interrupcao_gpio: if (agora - ultima < 200), in uint32_t arithmetic
Bouncing(agora, ult) == Below32(Sub32(agora, ult), DEBOUNCE_MS)

\* (mutant of TratarBotao: the reset writes the defaults without looking at the lock)
TratarBotaoUnlocked(btn) ==
    CASE btn = BTN_3 ->
            /\ config' = ConfigDefault
            /\ ForgetPost
            /\ UNCHANGED <<mutex_config, post_pc, body_copy, strtok_save, pair, updated,
                           updates, errors, resp, nreq>>
            /\ UNCHANGED <<log_medicoes, bootsel>>
      [] btn = BTN_2 -> bootsel' = TRUE /\ UNCHANGED <<log_medicoes, cfgVars>>
      [] btn = BTN_1 -> log_medicoes' = ~log_medicoes /\ UNCHANGED <<bootsel, cfgVars>>

\* (mutant of TratarBotao: the reset also switches the log off)
TratarBotaoResetSilences(btn) ==
    CASE btn = BTN_3 -> TratarBotao_BTN3 /\ log_medicoes' = FALSE /\ UNCHANGED bootsel
      [] btn = BTN_2 -> bootsel' = TRUE /\ UNCHANGED <<log_medicoes, cfgVars>>
      [] btn = BTN_1 -> log_medicoes' = ~log_medicoes /\ UNCHANGED <<bootsel, cfgVars>>

\* tratar_botao
TratarBotao(btn) ==
    CASE btn = BTN_3 -> TratarBotao_BTN3 /\ UNCHANGED <<log_medicoes, bootsel>>
      [] btn = BTN_2 -> bootsel' = TRUE /\ UNCHANGED <<log_medicoes, cfgVars>>
      [] btn = BTN_1 -> log_medicoes' = ~log_medicoes /\ UNCHANGED <<bootsel, cfgVars>>

\* manipulador_interrupcao_gpio
ManipuladorInterrupcaoGpio(gpio) ==
    LET agora == ms_since_boot IN
    /\ ~bootsel
    /\ nedges < MaxEdges
    /\ nedges' = nedges + 1
    /\ UNCHANGED <<ms_since_boot, nsteps>>
    /\ IF Bouncing(agora, ultima)
       THEN /\ edge' = [btn |-> gpio, accepted |-> FALSE, gap |-> since,
                        locked |-> FALSE, was_default |-> config = ConfigDefault,
                        waits |-> <<>>]
            /\ UNCHANGED <<ultima, since, log_medicoes, bootsel>>
            /\ UNCHANGED cfgVars
       ELSE /\ ultima' = agora
            /\ since' = 0
            /\ edge' = [btn |-> gpio, accepted |-> TRUE, gap |-> since,
                        locked |-> mutex_config = "none",
                        was_default |-> config = ConfigDefault,
                        waits |-> BlockingCalls(gpio)]
            /\ TratarBotao(gpio)

NextBtn ==
    /\ \/ \E d \in ClockSteps : ClockStep(d)
       \/ \E gpio \in Buttons : ManipuladorInterrupcaoGpio(gpio)
       \/ (\E body \in BtnBodies : PostBegin(body)) /\ ~bootsel /\ UNCHANGED btnVars
       \/ PostPair /\ ~bootsel /\ UNCHANGED btnVars
       \/ PostEnd /\ ~bootsel /\ UNCHANGED btnVars
    /\ UNCHANGED <<poolVars, alertVars, tx, jsonVars, upd, segs, cyc, linkVars>>

-----------------------------------------------------------------------------
(* Configuration updates beside the tasks that read the configuration.  The     *)
(* web task is followed statement by statement through the pair loop; the       *)
(* acquisition task and the alert task run beside it.                           *)

\* bodies of POST /cfg: one pair, and a pair whose value is followed by "=" and a
\* second pair, which the pair loop takes up as a pair of its own
AtomicBodies ==
    {<<"temp_offset", "=", "2.5">>,
     <<"temp_offset", "=", "2.5", "=", "hum_offset", "=", "2.5">>}

NoUpd == [writes |-> 0, intruded |-> FALSE, broken |-> FALSE]

InitUpd == upd = NoUpd

\* a POST /cfg has written config and has not yet left its pair loop
Writing == post_pc = "loop" /\ upd.writes >= 1

\* another task reads or writes config
Intrude == upd' = IF Writing THEN [upd EXCEPT !.intruded = TRUE] ELSE upd

\* the POST /cfg handler, with the note of its writes
UpdPost ==
    \/ (\E body \in AtomicBodies : PostBegin(body))
          /\ upd' = [NoUpd EXCEPT !.broken = upd.broken]
    \/ PostPair
          /\ upd' = IF Len(updates') > Len(updates)
                    THEN [upd EXCEPT !.writes = @ + 1,
                                     !.broken = @ \/ upd.intruded]
                    ELSE upd
    \/ PostEnd /\ UNCHANGED upd

\* the readers and the other writer of config
UpdOthers ==
    \/ /\ SensTake
       /\ UNCHANGED <<cfgVars, upd>>
    \/ \E ok \in BOOLEAN, t \in AhtTemperatures, h \in AhtHumidities :
          /\ SensAht(ok, t, h)
          /\ IF ok THEN Intrude ELSE UNCHANGED upd
          /\ UNCHANGED cfgVars
    \/ \E ok \in BOOLEAN, p \in BmpPressures :
          /\ SensBmp(ok, p)
          /\ IF ok THEN Intrude ELSE UNCHANGED upd
          /\ UNCHANGED cfgVars
    \/ TarefaAlerta_TakeConfig /\ UNCHANGED <<alertVars, upd>>
    \/ TarefaAlerta_GiveConfig /\ Intrude /\ UNCHANGED alertVars
    \/ GetConfig /\ Intrude /\ UNCHANGED alertVars
    \/ /\ TratarBotao_BTN3
       /\ IF config' # config THEN Intrude ELSE UNCHANGED upd
       /\ UNCHANGED alertVars

NextAtomic ==
    /\ \/ UpdPost /\ UNCHANGED alertVars
       \/ UpdOthers
    /\ UNCHANGED <<poolVars, tx, jsonVars, btnVars, segs, cyc, linkVars>>

-----------------------------------------------------------------------------
(* A message that reaches the server in more than one receive notification *)

\* a POST /cfg with its body, and the two segments a transport may cut it into
WholePost == RequestLine("POST ", <<"cfg">>) \o <<"CRLFCRLF", "temp_min", "=", "35">>
FirstSegment == RequestLine("POST ", <<"cfg">>)
SecondSegment == <<"CRLFCRLF", "temp_min", "=", "35">>

Segments == {WholePost, FirstSegment, SecondSegment}

InitSeg == segs = [c \in AllConnIds |-> <<>>]

\* webserver_recv, with the note of the segment it was given
SegRecv(c, seg, outcome) ==
    /\ Len(segs[c]) < MaxSegments
    /\ ConnRecv(c, seg, TRUE, outcome, "ok", TRUE)
    /\ segs' = [segs EXCEPT ![c] = Append(@, seg)]

NextSeg ==
    /\ \/ (\E allocOk \in BOOLEAN : WebserverAccept(allocOk)) /\ UNCHANGED <<tx, segs>>
       \/ \E c \in ConnIds, seg \in Segments : \E outcome \in OutcomesOf(seg) :
             SegRecv(c, seg, outcome)
       \/ \E c \in ConnIds : ConnSent(c, "ok", TRUE) /\ UNCHANGED segs
    /\ UNCHANGED <<cfgVars, alertVars, jsonVars, btnVars, upd, cyc, linkVars>>

\* more connections than the pool holds, each sending one request whose response is
\* transmitted to the end
NextPoolFull ==
    /\ \/ \E allocOk \in BOOLEAN : WebserverAcceptOffered(allocOk)
       \/ \E c \in AllConnIds : /\ ~conn[c].response_sent
                                /\ WebserverRecv(c, TRUE, LongBody, "ok", TRUE)
       \/ \E c \in AllConnIds : WebserverSent(c, "ok", TRUE)
    /\ UNCHANGED <<cfgVars, alertVars, tx, jsonVars, btnVars, upd, segs, cyc, linkVars>>

-----------------------------------------------------------------------------
(* The acquisition cycle beside the alert task, with a note of what each cycle   *)
(* did: whether it obtained mutex_sensor, how each read ended, and the reading   *)
(* before the cycle and after the AHT20 step.                                    *)

NoCyc == [locked |-> TRUE, aht |-> "none", bmp |-> "none", before |-> SensorZero,
          mid |-> SensorZero]

InitCyc == cyc = NoCyc

\* tarefa_leitura_sensores: the take that opens a cycle
CycTake ==
    /\ SensTake
    /\ cyc' = [locked |-> mutex_sensor = "none", aht |-> "none", bmp |-> "none",
               before |-> sensor_data, mid |-> sensor_data]

\* tarefa_leitura_sensores: the AHT20 step
CycAht(ok, t, h) ==
    /\ SensAht(ok, t, h)
    /\ cyc' = [cyc EXCEPT !.aht = IF ok THEN "ok" ELSE "fail", !.mid = sensor_data']

\* tarefa_leitura_sensores: the BMP280 step; press_raw == 0 is the failed read
CycBmp(ok, p) ==
    /\ SensBmp(ok, p)
    /\ cyc' = [cyc EXCEPT !.bmp = IF ok THEN "ok" ELSE "fail"]

NextSens ==
    /\ \/ CycTake /\ UNCHANGED cfgVars
       \/ (\E ok \in BOOLEAN, t \in AhtTemperatures, h \in AhtHumidities : CycAht(ok, t, h))
          /\ UNCHANGED cfgVars
       \/ (\E ok \in BOOLEAN, p \in BmpPressures : CycBmp(ok, p)) /\ UNCHANGED cfgVars
       \/ TarefaAlertaNext /\ UNCHANGED cyc
    /\ UNCHANGED <<poolVars, tx, jsonVars, btnVars, upd, segs, linkVars>>

-----------------------------------------------------------------------------
(* The status LED and the link.  The LED has three outputs, written with         *)
(* gpio_put by atualizar_led_status (alert task) and by tarefa_webserver.        *)

max_wifi_attempts == 5

LedOff == [red |-> 0, green |-> 0, blue |-> 0]

\* inicializar_leds leaves the three outputs at 0; the flags have their initialisers
InitLink ==
    /\ led = LedOff
    /\ wifi_connected = FALSE
    /\ web_pc = "connect"
    /\ wifi_attempts = 0

\* atualizar_led_status: the three gpio_put of each branch
AtualizarLedStatus(alert, wifi) ==
    IF alert THEN [red |-> 1, green |-> 0, blue |-> 0]
    ELSE [red |-> 0, green |-> 1, blue |-> IF wifi THEN 0 ELSE 1]

\* tarefa_webserver: one cyw43_arch_wifi_connect_timeout_ms inside the while
WebConnect(ok) ==
    /\ web_pc = "connect"
    /\ wifi_attempts < max_wifi_attempts
    /\ IF ok
       THEN wifi_connected' = TRUE /\ web_pc' = "listen" /\ UNCHANGED wifi_attempts
       ELSE wifi_attempts' = wifi_attempts + 1 /\ UNCHANGED <<wifi_connected, web_pc>>
    /\ UNCHANGED led

\* tarefa_webserver: the while is left without a connection: blue on, return
WebGiveUp ==
    /\ web_pc = "connect"
    /\ wifi_attempts >= max_wifi_attempts
    /\ ~wifi_connected
    /\ led' = [led EXCEPT !.blue = 1]
    /\ web_pc' = "stopped"
    /\ UNCHANGED <<wifi_connected, wifi_attempts>>

\* tarefa_webserver: tcp_new, tcp_bind, tcp_listen_with_backlog and tcp_accept; when
\* one of the first three fails: blue on, return
WebListen(ok) ==
    /\ web_pc = "listen"
    /\ IF ok
       THEN web_pc' = "poll" /\ UNCHANGED led
       ELSE web_pc' = "stopped" /\ led' = [led EXCEPT !.blue = 1]
    /\ UNCHANGED <<wifi_connected, wifi_attempts>>

\* tarefa_webserver: one turn of the poll loop; when the link is not up the flag is
\* cleared, blue is put on, and the task waits WIFI_RECONNECT_INTERVAL_MS
WebPoll(up) ==
    /\ web_pc = "poll"
    /\ IF up
       THEN UNCHANGED <<led, wifi_connected, web_pc>>
       ELSE /\ wifi_connected' = FALSE
            /\ led' = [led EXCEPT !.blue = 1]
            /\ web_pc' = "reconnect"
    /\ UNCHANGED wifi_attempts

\* tarefa_webserver: after the wait, the second look at the link
WebReconnect(up) ==
    /\ web_pc = "reconnect"
    /\ IF up
       THEN wifi_connected' = TRUE /\ led' = [led EXCEPT !.blue = 0]
       ELSE UNCHANGED <<led, wifi_connected>>
    /\ web_pc' = "poll"
    /\ UNCHANGED wifi_attempts

TarefaWebserverNext ==
    \/ \E ok \in BOOLEAN : WebConnect(ok)
    \/ WebGiveUp
    \/ \E ok \in BOOLEAN : WebListen(ok)
    \/ \E up \in BOOLEAN : WebPoll(up)
    \/ \E up \in BOOLEAN : WebReconnect(up)

\* webserver_accept can be called once tcp_accept has registered it (here with a
\* calloc that succeeds)
LinkAccept ==
    /\ web_pc \in {"poll", "reconnect"}
    /\ WebserverAccept(TRUE)

\* tarefa_alerta: alert_active = alerta; atualizar_led_status()
LedAssign ==
    /\ AlAssign
    /\ led' = AtualizarLedStatus(alert_active', wifi_connected)
    /\ UNCHANGED <<wifi_connected, web_pc, wifi_attempts>>

\* the steps of tarefa_alerta before the assignment
AlertaBeforeAssign ==
    \/ AlTakeSensor
    \/ AlTakeConfig
    \/ AlEval
    \/ AlCompare
    \/ AlTone

NextLed ==
    /\ \/ TarefaWebserverNext /\ UNCHANGED <<cfgVars, poolVars, alertVars>>
       \/ LinkAccept /\ UNCHANGED <<cfgVars, alertVars, linkVars>>
       \/ AlertaBeforeAssign /\ UNCHANGED <<poolVars, linkVars>>
       \/ LedAssign /\ UNCHANGED poolVars
       \/ TarefaLeituraSensoresNext /\ UNCHANGED <<cfgVars, poolVars, linkVars>>
    /\ UNCHANGED <<tx, jsonVars, btnVars, upd, segs, cyc>>

\* the three status flags and their writers: the alert task, tarefa_webserver and
\* the interrupt handler of the buttons, until reset_usb_boot ends the program
NextFlags ==
    /\ \/ ~bootsel /\ TarefaWebserverNext /\ UNCHANGED <<cfgVars, alertVars, btnVars>>
       \/ ~bootsel /\ AlertaBeforeAssign /\ UNCHANGED <<linkVars, btnVars>>
       \/ ~bootsel /\ LedAssign /\ UNCHANGED btnVars
       \/ ClockStep(U32(DEBOUNCE_MS)) /\ UNCHANGED <<alertVars, linkVars>>
       \/ (\E gpio \in Buttons : ManipuladorInterrupcaoGpio(gpio))
          /\ UNCHANGED <<alertVars, linkVars>>
    /\ UNCHANGED <<poolVars, tx, jsonVars, upd, segs, cyc>>

Init ==
    /\ InitCfg /\ InitPool /\ InitAlert /\ InitTx /\ InitJson /\ InitBtn /\ InitUpd
    /\ InitSeg /\ InitCyc /\ InitLink

SpecCfg == Init /\ [][NextCfg]_vars

SpecSens == Init /\ [][NextSens]_vars

SpecLed == Init /\ [][NextLed]_vars

SpecFlags == Init /\ [][NextFlags]_vars

SpecPool == Init /\ [][NextPool]_vars

SpecAlert == Init /\ [][NextAlert]_vars

SpecPoolFull == Init /\ [][NextPoolFull]_vars

SpecConn == Init /\ [][NextConn]_vars

SpecJson == Init /\ [][NextJson]_vars

SpecBtn == Init /\ [][NextBtn]_vars

SpecAtomic == Init /\ [][NextAtomic]_vars

SpecSeg == Init /\ [][NextSeg]_vars

\* the sweep task runs, the clock advances, and the transport delivers the
\* send-complete notification of data it was handed
FairSpecPool ==
    /\ SpecPool
    /\ WF_vars(SweepNext /\ UNCHANGED <<cfgVars, alertVars, tx, jsonVars, btnVars, upd, segs, cyc, linkVars>>)
    /\ WF_vars(Tick /\ UNCHANGED <<cfgVars, alertVars, tx, jsonVars, btnVars, upd, segs, cyc, linkVars>>)
    /\ \A c \in ConnIds :
          WF_vars((\E wr \in WriteOutcomes, closeOk \in BOOLEAN :
                      WebserverSent(c, wr, closeOk)) /\ UNCHANGED <<cfgVars, alertVars, tx, jsonVars, btnVars, upd, segs, cyc, linkVars>>)

-----------------------------------------------------------------------------
(* Properties of the configuration update protocol *)

RECURSIVE SplitAmp(_)
\* the "&"-joined pairs of a body, as the protocol defines them
SplitAmp(b) ==
    IF \A i \in 1..Len(b) : b[i] # "&" THEN <<b>>
    ELSE LET j == CHOOSE i \in 1..Len(b) : b[i] = "&" /\ \A h \in 1..(i - 1) : b[h] # "&"
         IN  <<SubSeq(b, 1, j - 1)>> \o SplitAmp(SubSeq(b, j + 1, Len(b)))

\* a key=value pair with a non-empty key and value
WellFormed(p) == Len(p) = 3 /\ p[2] = "=" /\ p[1] # "=" /\ p[3] # "="

\* a body whose pairs are well-formed, empty or a bare key
PlainBody(b) == \A i \in 1..Len(SplitAmp(b)) : Len(SplitAmp(b)[i]) <= 3

\* the last POST /cfg went through the pair loop and its response is the latest
PostDone == post_pc = "idle" /\ after_post = "posted" /\ resp.route = "cfg"

\* the pair is well-formed, numeric, inside its field's range, but violates min<max
\* against the other bound as it was when the request was dispatched
CrossViolating(p) ==
    /\ WellFormed(p)
    /\ p[1] \in MinKeys \cup MaxKeys
    /\ p[3] \in DOMAIN NumValue
    /\ NumValue[p[3]] >= FieldRange[p[1]][1]
    /\ NumValue[p[3]] <= FieldRange[p[1]][2]
    /\ IF p[1] \in MinKeys THEN NumValue[p[3]] >= cfg_before[Partner[p[1]]]
                           ELSE NumValue[p[3]] <= cfg_before[Partner[p[1]]]

\* the pair is well-formed but has an unknown key, a non-numeric value or a value
\* outside its field's range
BadPair(p) ==
    /\ WellFormed(p)
    /\ \/ p[1] \notin Fields
       \/ p[3] \notin DOMAIN NumValue
       \/ NumValue[p[3]] < FieldRange[p[1]][1]
       \/ NumValue[p[3]] > FieldRange[p[1]][2]

EntriesFor(list, k) == {i \in 1..Len(list) : list[i].field = k}
PairsFor(ps, k) == {i \in 1..Len(ps) : WellFormed(ps[i]) /\ ps[i][1] = k}

\* C5: in every reachable state temp_min < temp_max, hum_min < hum_max and
\* press_min < press_max hold strictly, whatever POST /cfg requests and reset-button
\* presses came before.
C5_MinLessMax ==
    /\ config.temp_min < config.temp_max
    /\ config.hum_min < config.hum_max
    /\ config.press_min < config.press_max

\* a second request tried hum_max=35 after hum_min=40 had been applied
C5_Witness ==
    /\ PostDone
    /\ nreq = 2
    /\ config.hum_min = 4000
    /\ \E i \in 1..Len(resp.body.errors) :
          resp.body.errors[i].field = "hum_max" /\ resp.body.errors[i].note = "<= min"

\* C6: after a POST /cfg of several &-joined pairs, every well-formed pair is in
\* exactly one of the updates list or the errors list: for every key, the entries of
\* the two lists for that key are as many as the well-formed pairs with that key.
C6_EveryPairProcessed ==
    (PostDone /\ PlainBody(req_body)) =>
        \A k \in Keys :
            Cardinality(EntriesFor(resp.body.updates, k))
              + Cardinality(EntriesFor(resp.body.errors, k))
            = Cardinality(PairsFor(SplitAmp(req_body), k))

\* C7: from (temp_min, temp_max) = (15, 30), temp_max=40&temp_min=35 applies both
\* fields and yields (35, 40), while temp_min=35&temp_max=40 rejects temp_min,
\* applies temp_max and yields (15, 40).
C7_OrderExample ==
    (PostDone /\ cfg_before.temp_min = 1500 /\ cfg_before.temp_max = 3000) =>
        /\ req_body = <<"temp_max", "=", "40", "&", "temp_min", "=", "35">> =>
              /\ config.temp_min = 3500
              /\ config.temp_max = 4000
              /\ EntriesFor(resp.body.updates, "temp_max") # {}
              /\ EntriesFor(resp.body.updates, "temp_min") # {}
        /\ req_body = <<"temp_min", "=", "35", "&", "temp_max", "=", "40">> =>
              /\ config.temp_min = 1500
              /\ config.temp_max = 4000
              /\ EntriesFor(resp.body.errors, "temp_min") # {}
              /\ EntriesFor(resp.body.updates, "temp_max") # {}

\* C8: a pair that gives a new minimum not strictly less than the current maximum
\* (or a new maximum not strictly greater than the current minimum) is rejected with
\* an error entry for its field, and neither bound of the dimension changes.
C8_CrossRejected ==
    PostDone =>
        \A i \in 1..Len(SplitAmp(req_body)) :
            LET p == SplitAmp(req_body)[i] IN
            (CrossViolating(p) /\ config[Partner[p[1]]] = cfg_before[Partner[p[1]]]) =>
                /\ EntriesFor(resp.body.errors, p[1]) # {}
                /\ config[p[1]] = cfg_before[p[1]]

\* C9: a pair is applied only if its key is a known field and its value is in the
\* field's range; a request whose well-formed pairs all have an unknown key, a
\* non-numeric value or an out-of-range value leaves the configuration unchanged and
\* adds exactly one error entry per such pair.
C9_BadPairsReported ==
    PostDone =>
        /\ \A i \in 1..Len(resp.body.updates) :
              /\ resp.body.updates[i].field \in Fields
              /\ InRange(resp.body.updates[i].field, config[resp.body.updates[i].field])
        /\ (PlainBody(req_body)
              /\ \A i \in 1..Len(SplitAmp(req_body)) :
                    WellFormed(SplitAmp(req_body)[i]) => BadPair(SplitAmp(req_body)[i]))
           => /\ config = cfg_before
              /\ Len(resp.body.errors)
                   = Cardinality({i \in 1..Len(SplitAmp(req_body)) :
                                     WellFormed(SplitAmp(req_body)[i])})

\* GET /config ran right after a successful POST /cfg of exactly one pair
SinglePairReported ==
    /\ post_pc = "idle"
    /\ after_post = "reported"
    /\ post_status = 200
    /\ WellFormed(req_body)
    /\ resp.route = "config"

\* C10 as stated: after a successful POST /cfg of exactly one valid pair the field
\* has the given value, the other eight fields are unchanged, and the following
\* GET /config reports exactly that configuration.
C10_ReportExact ==
    SinglePairReported =>
        /\ config = [cfg_before EXCEPT ![req_body[1]] = NumValue[req_body[3]]]
        /\ \A f \in Fields : resp.body[f] * 10 = config[f]

\* C10 amended: after a successful POST /cfg of exactly one valid pair the field has
\* the given value, the other eight fields are unchanged, and the following
\* GET /config reports every field rounded to one decimal place: within 0.05 of the
\* configuration, and exactly the configuration for a value of at most one decimal.
C10_ReportRounded ==
    SinglePairReported =>
        /\ config = [cfg_before EXCEPT ![req_body[1]] = NumValue[req_body[3]]]
        /\ \A f \in Fields :
              /\ resp.body[f] * 10 - config[f] <= 5
              /\ config[f] - resp.body[f] * 10 < 5
              /\ config[f] % 10 = 0 => resp.body[f] * 10 = config[f]

\* GET /config after POST /cfg temp_offset=2.5 (the example of the claim)
C10_Witness ==
    /\ SinglePairReported
    /\ req_body = <<"temp_offset", "=", "2.5">>
    /\ resp.body.temp_offset = 25

-----------------------------------------------------------------------------
(* Properties of the connection pool *)

\* C1: no two of the accept callback, a connection's own callbacks and the sweep task
\* are ever inside a read-modify-write of the same pool slot, or of the record it
\* points to, at the same time: no callback or accept writes a slot or record between
\* the sweep's read of that slot and the end of the sweep's work on it.
C1_MutualExclusion == ~overlap

\* C2: under fairness of the sweep task and of the event pump, every occupied pool
\* slot eventually returns to free.
C2_SlotsReturnFree ==
    \A i \in Slots : (active_connections[i] # 0) ~> (active_connections[i] = 0)

\* C3: the sweep's scan of a slot whose connection is past its idle-deadline tears
\* that connection down: it never leaves such a connection open.
C3_SweepClosesExpired == sw_missed = 0

C4_TeardownOnce == \A c \in ConnIds : conn[c].closes <= 1

\* the slots that reference connection c
SlotsOf(c) == {i \in Slots : active_connections[i] = c}

\* C31: a slot is free only if the transport handle of the connection that occupied
\* it has been closed: every connection whose handle is open still has its slot.
C31_FreeSlotHandleClosed ==
    \A c \in ConnIds : conn[c].pcb = "open" => SlotsOf(c) # {}

\* C33: the sweep never reads the deadline or the handle through a record that a
\* callback has released: the slot it found occupied is still occupied when it reads
\* the deadline, and the record it passes to close_connection is still live when
\* close_connection reads its handle.
C33_SweepReadsLive ==
    /\ sw_pc = "deadline" => active_connections[sw_i] # 0
    /\ (sw_pc = "cc_release" /\ sw_state # 0) => conn[sw_state].st = "live"

\* C35: at most MAX_CONNECTIONS records exist, every live record is referenced by
\* exactly one slot, and every occupied slot references a live record whose callbacks
\* are registered.
C35_PoolConsistent ==
    /\ Cardinality({c \in ConnIds : conn[c].st = "live"}) <= MAX_CONNECTIONS
    /\ \A c \in ConnIds : conn[c].st = "live" => Cardinality(SlotsOf(c)) = 1
    /\ \A i \in Slots : active_connections[i] # 0 =>
          (conn[active_connections[i]].st = "live" /\ conn[active_connections[i]].cb)

-----------------------------------------------------------------------------
(* Properties of the alert task *)

\* C12: the tone pattern is played exactly once for each NORMAL -> ALERT change of the
\* alert state and on no other tick: in every finished tick the tone was played exactly
\* when the state went from NORMAL to ALERT in that tick; and one out-of-limit
\* evaluation followed by three in-limit evaluations gives exactly one tone pattern
\* and exactly one ALERT -> NORMAL change.
C12_ToneOncePerRise ==
    al_pc = "sleep" =>
        /\ al_tick.toned <=> (~al_tick.before /\ alert_active)
        /\ evals = <<"out", "in", "in", "in">> => (tones = 1 /\ drops = 1)

\* C12 witnesses: the four evaluations of the example have run
C12_Witness ==
    /\ al_pc = "sleep"
    /\ evals = <<"out", "in", "in", "in">>
    /\ tones = 1
    /\ drops = 1
    /\ ~alert_active

\* C13: after every tick of the alert task that evaluated the reading, the alert state
\* is ALERT exactly when the reading it evaluated has a value strictly below its
\* minimum or strictly above its maximum; a value equal to a bound counts as inside.
C13_AlertIffOutside ==
    (al_pc = "sleep" /\ al_tick.evaluated) => (alert_active <=> al_tick.out)

\* C13 witnesses: a reading with a value on a bound and none outside was evaluated
C13_Witness ==
    /\ al_pc = "sleep"
    /\ al_tick.evaluated
    /\ al_tick.onbound
    /\ ~al_tick.out
    /\ ~alert_active

\* a call of the edge handler
EdgeStep == nedges' = nedges + 1

\* C21: an edge is accepted only when at least 200 ms have passed since the last
\* accepted edge of any button, and a rejected edge changes nothing, not even the
\* last-trigger timestamp.
C21_Debounce ==
    /\ []((edge.accepted /\ edge.gap # -1) => edge.gap >= DEBOUNCE_MS)
    /\ [][(EdgeStep /\ ~edge'.accepted) =>
            UNCHANGED <<ultima, log_medicoes, bootsel, cfgVars>>]_vars

\* C21 witnesses: an edge on one button was rejected after an accepted edge on another
\* button less than 200 ms before, across the wrap of the millisecond counter
C21_Witness ==
    /\ nedges >= 2
    /\ ~edge.accepted
    /\ edge.gap \in 1..(DEBOUNCE_MS - 1)
    /\ edge.btn = BTN_1
    /\ Less32(ms_since_boot, ultima)
    /\ log_medicoes

\* C22: an accepted edge of the reset button that obtains the configuration lock sets
\* the six limits and the three offsets to the defaults in one update and releases
\* the lock; if the lock is not obtained the configuration is unchanged.
C22_ResetToDefaults ==
    [][(EdgeStep /\ edge'.accepted /\ edge'.btn = BTN_3) =>
          IF mutex_config = "none"
          THEN config' = ConfigDefault /\ mutex_config' = "none"
          ELSE config' = config /\ mutex_config' = mutex_config]_vars

\* C22 witnesses: a configuration changed by POST /cfg was reset by the button
C22_Witness ==
    /\ edge.accepted
    /\ edge.btn = BTN_3
    /\ edge.locked
    /\ ~edge.was_default
    /\ config = ConfigDefault

\* C23: a tick of the alert task whose wait for a lock timed out skips the evaluation
\* and leaves the alert state (and with it the LED and the buzzer) as it was.
C23_TimeoutKeepsState ==
    (al_pc = "sleep" /\ nticks > 0 /\ ~al_tick.evaluated) =>
        (alert_active = al_tick.before /\ ~al_tick.toned)

\* C24: at the end of a cycle, before its timed sleep, a task holds no lock.
C24_NoLockAcrossSleep ==
    /\ al_pc = "sleep" => (mutex_sensor # "alert" /\ mutex_config # "alert")
    /\ sn_pc = "idle" => mutex_sensor # "sens"

\* C25: no task holds the sensor lock and the configuration lock at the same time.
C25_NeverBothLocks ==
    \A task \in {"alert", "sens", "web"} : ~(mutex_sensor = task /\ mutex_config = task)

\* the step in which the acquisition task reads offsets out of config
ReadsOffsets ==
    \/ sn_pc = "aht" /\ sn_pc' = "bmp" /\ sensor_data'.temp_aht20 # 0
    \/ sn_pc = "bmp" /\ sn_pc' = "idle" /\ sensor_data'.press_bmp280 # 0

\* C26: the acquisition task reads the offsets only under the configuration lock: it
\* never reads an offset while a POST /cfg holds that lock for its update.
C26_OffsetsUnderConfigLock ==
    [][ReadsOffsets => mutex_config # "web"]_vars

\* C27: every read of the reading by the presentation task and by GET /json is made
\* under the sensor lock: what they show never has the temperature and humidity of
\* one acquisition cycle with the pressure of another.
C27_ReadersSeeOneCycle ==
    /\ json_resp.status # 0 => ~json_resp.mid
    /\ shown.drawn => ~shown.mid

\* C28: a configuration update is atomic for every other reader and writer: between
\* the first and the last write of one POST /cfg no other task reads or writes the
\* configuration.
C28_UpdateAtomic == ~upd.broken

-----------------------------------------------------------------------------
(* Properties of the request path *)

PoolFull == \A i \in Slots : active_connections[i] # 0

\* C14: when all MAX_CONNECTIONS slots are occupied, a further accept is refused
\* without allocating a connection record (its handle is closed), and no slot and no
\* record, cursor or remaining length of the existing connections changes.
C14_FullPoolRefuses ==
    [][(PoolFull /\ naccept' = naccept + 1) =>
          /\ active_connections' = active_connections
          /\ \A c \in 1..naccept : conn'[c] = conn[c]
          /\ conn'[naccept + 1].st = "unborn"
          /\ conn'[naccept + 1].pcb = "closed"]_vars

\* C14 witnesses: four live connections fill the pool, one of them with a response in
\* flight, and the fifth was refused
C14_Witness ==
    /\ PoolFull
    /\ \A c \in 1..MAX_CONNECTIONS : conn[c].st = "live"
    /\ \E c \in 1..MAX_CONNECTIONS : conn[c].inflight /\ conn[c].remaining_len > 0
    /\ naccept = MAX_CONNECTIONS + 1
    /\ conn[MAX_CONNECTIONS + 1].st = "unborn"
    /\ conn[MAX_CONNECTIONS + 1].pcb = "closed"

\* the method and the path of a request, as the protocol defines them
MethodOf(req) == req[1]
PathOf(req) ==
    LET e == CHOOSE i \in 1..Len(req) :
                 req[i] = " HTTP/1.1" /\ \A j \in 1..(i - 1) : req[j] # " HTTP/1.1"
    IN  SubSeq(req, 2, e - 1)

KnownRoutes == {<<"GET ", <<"/">>>>, <<"GET ", <<"/", "index.html">>>>,
                <<"GET ", <<"/", "json">>>>, <<"GET ", <<"/", "config">>>>,
                <<"POST ", <<"/", "cfg">>>>}

Torn(c) == conn[c].st = "freed"

\* C15: a receive longer than MAX_REQUEST_SIZE is answered with the 413 header, with
\* no request buffer allocated and no route dispatched, and the connection is torn
\* down: at once if the header cannot be written, else by the next notification.
C15_TooLargeRejected ==
    \A c \in ConnIds : tx[c].kind = "toolarge" =>
        /\ tx[c].status = 413 \/ (tx[c].status = 0 /\ Torn(c))
        /\ ~tx[c].buffered /\ ~tx[c].routed
        /\ tx[c].pieces = <<>>
        /\ tx[c].ev.cb = "recv" /\ tx[c].ev.wr \in {"hdr", "out"} => Torn(c)
        /\ tx[c].ev.cb # "recv" => Torn(c)

\* C15 witnesses: the 413 answer was handed over and the send-complete notification
\* tore the connection down
C15_Witness ==
    \E c \in ConnIds : /\ tx[c].kind = "toolarge"
                       /\ tx[c].status = 413
                       /\ tx[c].ev.cb = "sent"
                       /\ Torn(c)

\* C16: a request whose method and path are none of GET /, GET /index.html, GET /json,
\* GET /config, POST /cfg is answered with 404.
C16_OtherIsNotFound ==
    \A c \in ConnIds :
        (tx[c].routed /\ tx[c].status # 0 /\ Len(tx[c].req) > 0
           /\ <<MethodOf(tx[c].req), PathOf(tx[c].req)>> \notin KnownRoutes)
        => tx[c].status = 404

\* C17: GET /json answered before any sensor read has succeeded has status 200 and a
\* body whose temperature, humidity and pressure are all 0.0.
C17_JsonBeforeRead ==
    json_resp.unread =>
        /\ json_resp.status = 200
        /\ json_resp.body.temp_aht20 = 0
        /\ json_resp.body.hum_aht20 = 0
        /\ json_resp.body.press_bmp280 = 0

\* C17 witnesses: GET /json was answered while no read had succeeded, the acquisition
\* task having tried and failed
C17_Witness ==
    /\ json_resp.unread
    /\ json_resp.status = 200
    /\ ~any_read
    /\ sn_pc = "bmp"

\* C18: the pieces of a body longer than one chunk that are handed to the transport
\* are each between 1 and TCP_CHUNK_SIZE bytes, start at the beginning of the body and
\* follow one another without gap or overlap; the first goes with the header and each
\* later one with one send-complete notification; when the notification that finds
\* nothing remaining arrives they add up to the whole body.
C18_ChunksTileBody ==
    \A c \in ConnIds :
        LET p == tx[c].pieces IN
        tx[c].body_len > TCP_CHUNK_SIZE =>
            /\ \A i \in 1..Len(p) : p[i][2] >= 1 /\ p[i][2] <= TCP_CHUNK_SIZE
            /\ Len(p) >= 1 => p[1][1] = 0
            /\ \A i \in 1..(Len(p) - 1) : p[i + 1][1] = p[i][1] + p[i][2]
            /\ conn[c].st = "live" => Len(p) = 1 + tx[c].sents
            /\ (tx[c].ev.cb = "sent" /\ tx[c].ev.rem = 0) =>
                   /\ Len(p) = tx[c].sents
                   /\ p[Len(p)][1] + p[Len(p)][2] = tx[c].body_len

\* C18 witnesses: a body of three chunks was transmitted to the end
C18_Witness ==
    \E c \in ConnIds : /\ tx[c].body_len = LongBody
                       /\ Len(tx[c].pieces) = 3
                       /\ tx[c].ev.cb = "sent"
                       /\ tx[c].ev.rem = 0
                       /\ Torn(c)

\* C19: every response closes its connection: a send-complete notification that finds
\* the whole body handed over (nothing remaining) tears the connection down, and one
\* that finds something remaining tears it down only when handing the next piece fails.
C19_ResponseCloses ==
    \A c \in ConnIds : tx[c].ev.cb = "sent" =>
        /\ tx[c].ev.rem = 0 => Torn(c)
        /\ (tx[c].ev.rem > 0 /\ Torn(c)) => tx[c].ev.wr \in {"body", "out"}

\* C19 witnesses: a one-chunk response was answered and the notification closed it
C19_Witness ==
    \E c \in ConnIds : /\ tx[c].kind = "json"
                       /\ tx[c].status = 200
                       /\ tx[c].ev = [cb |-> "sent", wr |-> "ok", rem |-> 0]
                       /\ Torn(c)

\* a receive notification was delivered to connection c
RecvStep(c) == tx'[c].ev.cb = "recv" /\ tx'[c] # tx[c]

\* C29: a connection dispatches at most one request: while a response is in flight, a
\* further receive on the connection starts no other response and leaves the cursor
\* and the remaining length of the body in flight as they are.
C29_OneDispatch ==
    [][\A c \in ConnIds :
          (conn[c].inflight /\ RecvStep(c)) =>
              /\ conn'[c].remaining_data = conn[c].remaining_data
              /\ conn'[c].remaining_len = conn[c].remaining_len
              /\ tx'[c].pieces = tx[c].pieces]_vars

\* C30: a request delivered in more than one receive notification is accumulated and
\* dispatched once, on the complete message: after the two segments of a POST /cfg,
\* the request the connection dispatched is the whole POST /cfg.
C30_SegmentsAccumulated ==
    \A c \in ConnIds :
        segs[c] = <<FirstSegment, SecondSegment>> =>
            /\ tx[c].req = WholePost
            /\ tx[c].kind = "cfg"

\* C20: every response carries the permissive cross-origin headers, whatever its
\* status.
C20_CorsOnEveryResponse ==
    \A c \in ConnIds : tx[c].status # 0 => tx[c].cors

\* the operations on the transport handle that the last callback of connection c made
\* after its send_http_response returned: webserver_recv acknowledges the bytes with
\* tcp_recved(tpcb, ...) once handle_http_request is back
TailOps(c) ==
    IF tx[c].ev.cb = "recv" /\ tx[c].routed THEN {"tcp_recved"} ELSE {}

\* C32: once teardown has run inside a callback, the rest of that callback performs no
\* operation on the transport handle or the record of that connection.
C32_NothingAfterTeardown ==
    \A c \in ConnIds : (Torn(c) /\ tx[c].ev.cb \in {"recv", "sent"}) => TailOps(c) = {}

\* the last callback of connection c had a tcp_write refused: the header or the first
\* chunk in webserver_recv, a further chunk in webserver_sent
WriteFailed(c) ==
    \/ /\ tx[c].ev.cb = "recv"
       /\ \/ tx[c].ev.wr = "hdr"
          \/ tx[c].ev.wr = "body" /\ tx[c].body_len > 0
    \/ /\ tx[c].ev.cb = "sent"
       /\ tx[c].ev.wr = "body"
       /\ tx[c].ev.rem > 0

\* C34: when the header or a body chunk cannot be handed to the transport, the
\* connection is torn down in that same callback (record released, slot freed,
\* callbacks unregistered) and the piece that failed is not handed over again.
C34_WriteFailureTearsDown ==
    \A c \in ConnIds : WriteFailed(c) =>
        /\ Torn(c)
        /\ ~conn[c].cb
        /\ SlotsOf(c) = {}
        /\ tx[c].ev.cb = "recv" => tx[c].pieces = <<>>
        /\ tx[c].ev.cb = "sent" =>
              \A k \in 1..Len(tx[c].pieces) :
                  tx[c].pieces[k][1] # tx[c].body_len - tx[c].ev.rem

\* a chunk after the first was refused and the connection is gone
C34_Witness ==
    \E c \in ConnIds :
        /\ tx[c].ev.cb = "sent"
        /\ tx[c].ev.wr = "body"
        /\ tx[c].ev.rem > 0
        /\ Len(tx[c].pieces) > 0
        /\ Torn(c)

\* C36: in a cycle that obtained mutex_sensor a failed AHT20 read stores 0 in
\* temperature and humidity and leaves the pressure alone, a failed BMP280 read stores
\* 0 in the pressure and leaves temperature and humidity alone; a cycle that did not
\* obtain the lock leaves the whole reading as it was.
C36_FailedReadStoresZero ==
    /\ ~cyc.locked => (sensor_data = cyc.before /\ sn_pc = "idle")
    /\ cyc.aht = "fail" => (cyc.mid.temp_aht20 = 0 /\ cyc.mid.hum_aht20 = 0)
    /\ cyc.aht # "none" => cyc.mid.press_bmp280 = cyc.before.press_bmp280
    /\ cyc.bmp = "fail" => sensor_data.press_bmp280 = 0
    /\ cyc.bmp # "none" => /\ sensor_data.temp_aht20 = cyc.mid.temp_aht20
                           /\ sensor_data.hum_aht20 = cyc.mid.hum_aht20

\* a cycle whose AHT20 read failed over a reading that was not zero, and whose BMP280
\* read succeeded
C36_Witness ==
    /\ cyc.aht = "fail"
    /\ cyc.bmp = "ok"
    /\ cyc.before.temp_aht20 # 0
    /\ cyc.before.press_bmp280 # 0
    /\ sensor_data.temp_aht20 = 0
    /\ sensor_data.press_bmp280 # 0

\* a cycle that did not obtain the lock, over a reading that was not zero
C36_LockFailed == ~cyc.locked /\ cyc.before.temp_aht20 # 0

\* C37: the interrupt handler of the buttons does only non-blocking work: on the path
\* it took for the last edge it made no call that waits for a lock with a timeout
\* other than zero, and none that sleeps.
C37_HandlerNeverBlocks ==
    \A k \in 1..Len(edge.waits) : edge.waits[k].ms = 0

\* the LED shows what atualizar_led_status gives for the two flags as they are
LedConforms == led = AtualizarLedStatus(alert_active, wifi_connected)

\* C38: the LED outputs are a function of the alert state and the link status (ALERT:
\* red; NORMAL: green, with blue exactly when the link is down), and no write of the
\* outputs makes them deviate: a step that changes an output of a conforming LED
\* leaves it conforming.
C38_LedFunctionOfState ==
    [][(LedConforms /\ led' # led) => LedConforms']_vars

\* tarefa_webserver has returned after max_wifi_attempts failed attempts
GaveUp == web_pc = "stopped" /\ wifi_attempts = max_wifi_attempts

\* C40: when no attempt to connect succeeds the server task stops after the fifth
\* attempt, no connection is ever accepted, and the failure indicator (the blue
\* output) is on from then on.
C40_DegradedButAlive ==
    GaveUp => (naccept = 0 /\ ~wifi_connected /\ led.blue = 1)

\* the steps of the three writers
AlertAssignStep == al_pc = "assign" /\ al_pc' = "sleep"
WebStep == web_pc' # web_pc
LogButtonStep == EdgeStep /\ edge'.accepted /\ edge'.btn = BTN_1

\* C39: each status flag has one writer: alert_active changes only in the assignment
\* of the alert task, wifi_connected only in a step of tarefa_webserver, log_medicoes
\* only in an accepted edge of the log button, and every such edge flips it.
C39_OneWriterPerFlag ==
    [][/\ alert_active' # alert_active => AlertAssignStep
       /\ wifi_connected' # wifi_connected => WebStep
       /\ log_medicoes' # log_medicoes => LogButtonStep
       /\ LogButtonStep => log_medicoes' = ~log_medicoes]_vars

\* the three flags have all been written, the log flag by the last edge
C39_Witness ==
    /\ alert_active
    /\ wifi_connected
    /\ ~log_medicoes
    /\ edge.accepted
    /\ edge.btn = BTN_1

====
